---- MODULE Spec2Model ----
(***************************************************************************)
(* Model of the statement-analyzer extraction pipeline: the CSV, PDF-text  *)
(* and screenshot extractors, the keyword categorizer, the validity        *)
(* filter, the deduplicator and the transaction store of the Home page.    *)
(*                                                                         *)
(* Text is modelled character by character: a string is a sequence of      *)
(* one-character strings, so trimming, case folding, substring search and  *)
(* the regular expressions of the source are computed, not assumed.        *)
(* Amounts are JavaScript numbers with at most two decimals, kept as an    *)
(* integer number of hundredths; the source's "-0" and "0" are both 0      *)
(* (they print alike and compare alike in every place the code uses).      *)
(***************************************************************************)
EXTENDS Integers, Sequences, FiniteSets, TLC

VARIABLES
    transactions,   \* Home: useState<Transaction[]>  (the stored set)
    aiKey,          \* localStorage AI key present: isAIEnabled()
    clock,          \* Date.now()
    calls,          \* handleFilesParsed calls awaiting aiCategorize
    input,          \* argument of the function under call (pure-function runs)
    output,         \* its results so far
    phase           \* which call produced output

vars == <<transactions, aiKey, clock, calls, input, output, phase>>

----------------------------------------------------------------------------
(* Characters and strings                                                  *)

LowerLetters == <<"a","b","c","d","e","f","g","h","i","j","k","l","m",
                  "n","o","p","q","r","s","t","u","v","w","x","y","z">>
UpperLetters == <<"A","B","C","D","E","F","G","H","I","J","K","L","M",
                  "N","O","P","Q","R","S","T","U","V","W","X","Y","Z">>
Digits == <<"0","1","2","3","4","5","6","7","8","9">>

Range(f) == {f[i] : i \in DOMAIN f}

IsDigit(c) == c \in Range(Digits)
IsSpace(c) == c \in {" ", "\t", "\n"}
\* \w of a JavaScript regular expression
IsWordChar(c) == c \in Range(LowerLetters) \cup Range(UpperLetters) \cup Range(Digits) \cup {"_"}

IndexIn(seq, c) == CHOOSE i \in DOMAIN seq : seq[i] = c

LowerChar(c) == IF c \in Range(UpperLetters) THEN LowerLetters[IndexIn(UpperLetters, c)] ELSE c
UpperChar(c) == IF c \in Range(LowerLetters) THEN UpperLetters[IndexIn(LowerLetters, c)] ELSE c

\* String.prototype.toLowerCase / toUpperCase
ToLowerCase(s) == [i \in DOMAIN s |-> LowerChar(s[i])]
ToUpperCase(s) == [i \in DOMAIN s |-> UpperChar(s[i])]

\* String.prototype.trim
Trim(s) ==
    LET keep == {i \in DOMAIN s : ~IsSpace(s[i])}
    IN  IF keep = {} THEN <<>>
        ELSE LET lo == CHOOSE i \in keep : \A j \in keep : i <= j
                 hi == CHOOSE i \in keep : \A j \in keep : j <= i
             IN  SubSeq(s, lo, hi)

\* the character at position i, or no character
CharAt(s, i) == IF i \in 1..Len(s) THEN s[i] ELSE ""

\* the text at position i is sub
StartsAt(s, i, sub) ==
    /\ i >= 1
    /\ i + Len(sub) - 1 <= Len(s)
    /\ \A k \in 1..Len(sub) : s[i + k - 1] = sub[k]

\* String.prototype.includes
Includes(s, sub) == \E i \in 1..(Len(s) - Len(sub) + 1) : StartsAt(s, i, sub)

\* String.prototype.substring(0, n)
Substring0(s, n) == SubSeq(s, 1, IF Len(s) < n THEN Len(s) ELSE n)

\* String.prototype.padStart(2, '0')
PadStart2(s) == IF Len(s) < 2 THEN [i \in 1..(2 - Len(s)) |-> "0"] \o s ELSE s

\* maximal run of characters satisfying a class, starting at position i
RECURSIVE DigitRun(_, _)
DigitRun(s, i) == IF i <= Len(s) /\ IsDigit(s[i]) THEN 1 + DigitRun(s, i + 1) ELSE 0

RECURSIVE SpaceRun(_, _)
SpaceRun(s, i) == IF i <= Len(s) /\ IsSpace(s[i]) THEN 1 + SpaceRun(s, i + 1) ELSE 0

\* \b of a regular expression, between positions i-1 and i
WordBoundary(s, i) ==
    LET before == i - 1 >= 1 /\ i - 1 <= Len(s) /\ IsWordChar(s[i - 1])
        after  == i >= 1 /\ i <= Len(s) /\ IsWordChar(s[i])
    IN  before # after

Min(S) == CHOOSE x \in S : \A y \in S : x <= y

\* s with its characters i..j removed
Remove(s, i, j) == SubSeq(s, 1, i - 1) \o SubSeq(s, j + 1, Len(s))

\* String.prototype.replace(sub, ''): the first occurrence of the text sub
ReplaceFirstText(s, sub) ==
    LET at == {i \in 1..(Len(s) - Len(sub) + 1) : StartsAt(s, i, sub)}
    IN  IF at = {} \/ sub = <<>> THEN s ELSE Remove(s, Min(at), Min(at) + Len(sub) - 1)

\* String.prototype.replace(/\s+/g, ' ')
CollapseSpaces(s) ==
    LET \* a run of whitespace: " " at its first character, nothing at the others
        marked == [i \in DOMAIN s |->
                     IF ~IsSpace(s[i]) THEN s[i]
                     ELSE IF i > 1 /\ IsSpace(s[i - 1]) THEN "" ELSE " "]
    IN  SelectSeq(marked, LAMBDA c : c # "")

\* faulty variant: nothing is stripped
StripChars_KeepsAll(s, drop) == s

\* String.prototype.replace(/[$,]/g, '') and replace(/,/g, '')
StripChars(s, drop) == SelectSeq(s, LAMBDA c : c \notin drop)

\* String.prototype.split('\n')
RECURSIVE SplitLines(_)
SplitLines(s) ==
    LET nl == {i \in DOMAIN s : s[i] = "\n"}
    IN  IF nl = {} THEN <<s>>
        ELSE <<SubSeq(s, 1, Min(nl) - 1)>> \o SplitLines(SubSeq(s, Min(nl) + 1, Len(s)))

----------------------------------------------------------------------------
(* JavaScript values                                                       *)

Str(s)    == [t |-> "string", v |-> s]
Num(c)    == [t |-> "number", v |-> c]     \* c hundredths
NaN       == [t |-> "NaN"]                 \* the number NaN
Undefined == [t |-> "undefined"]
Null      == [t |-> "null"]

IsNum(x) == x.t = "number"
IsStr(x) == x.t = "string"

Abs(n) == IF n < 0 THEN -n ELSE n

DigitValue(c) == IndexIn(Digits, c) - 1

RECURSIVE DigitsValue(_)
DigitsValue(s) == IF s = <<>> THEN 0 ELSE 10 * DigitsValue(SubSeq(s, 1, Len(s) - 1)) + DigitValue(s[Len(s)])

\* parseInt of a string of digits
ParseInt(s) == DigitsValue(SubSeq(s, 1, DigitRun(s, 1)))

\* parseFloat: leading whitespace, a sign, digits, a fraction; whatever follows
\* is ignored; NaN when no digit was read. Fractions are read to the hundredth
\* (the inputs of the model carry at most two decimals and no exponent).
ParseFloat(s) ==
    LET Value(neg, p1, ni, nf) ==
            IF ni = 0 /\ nf = 0 THEN NaN
            ELSE LET Signed(mag) == Num(IF neg THEN -mag ELSE mag)
                     Hundredths(frac) ==
                         IF Len(frac) = 0 THEN 0
                         ELSE IF Len(frac) = 1 THEN 10 * DigitValue(frac[1])
                         ELSE DigitsValue(frac)
                 IN  Signed(100 * DigitsValue(SubSeq(s, p1, p1 + ni - 1))
                            + Hundredths(SubSeq(s, p1 + ni + 1, p1 + ni + (IF nf > 2 THEN 2 ELSE nf))))
        Fraction(neg, p1, ni) ==
            Value(neg, p1, ni,
                  IF p1 + ni <= Len(s) /\ s[p1 + ni] = "." THEN DigitRun(s, p1 + ni + 1) ELSE 0)
        Digits1(neg, p1) == Fraction(neg, p1, DigitRun(s, p1))
        Sign(p0) ==
            Digits1(p0 <= Len(s) /\ s[p0] = "-",
                    IF p0 <= Len(s) /\ s[p0] \in {"-", "+"} THEN p0 + 1 ELSE p0)
    IN  Sign(1 + SpaceRun(s, 1))

RECURSIVE NatToString(_)
NatToString(n) == IF n < 10 THEN <<Digits[n + 1]>> ELSE NatToString(n \div 10) \o <<Digits[(n % 10) + 1]>>

\* Number.prototype.toString of a number of hundredths
NumberToString(c) ==
    LET a  == Abs(c)
        fp == a % 100
    IN  (IF c < 0 THEN <<"-">> ELSE <<>>)
        \o NatToString(a \div 100)
        \o (IF fp = 0 THEN <<>>
            ELSE IF fp % 10 = 0 THEN <<".", Digits[(fp \div 10) + 1]>>
            ELSE <<".", Digits[(fp \div 10) + 1], Digits[(fp % 10) + 1]>>)

\* `${x}`: the text a template literal gives a value
TemplateText(x) ==
    CASE x.t = "string"    -> x.v
      [] x.t = "number"    -> NumberToString(x.v)
      [] x.t = "NaN"       -> <<"N","a","N">>
      [] x.t = "undefined" -> <<"u","n","d","e","f","i","n","e","d">>
      [] x.t = "null"      -> <<"n","u","l","l">>

\* Number(s) of a string: the whole trimmed text must be a decimal literal
StringToNumber(s) ==
    LET Literal(u, p1, ni, nf, end) ==
            IF ni + nf >= 1 /\ end = Len(u) THEN ParseFloat(u) ELSE NaN
        Fraction(u, p1, ni, dot) ==
            LET Run(nf) == Literal(u, p1, ni, nf, p1 + ni + (IF dot THEN 1 + nf ELSE 0) - 1)
            IN  Run(IF dot THEN DigitRun(u, p1 + ni + 1) ELSE 0)
        Digits1(u, p1) ==
            LET Run(ni) == Fraction(u, p1, ni, p1 + ni <= Len(u) /\ u[p1 + ni] = ".")
            IN  Run(DigitRun(u, p1))
        Trimmed(u) ==
            IF u = <<>> THEN Num(0)
            ELSE Digits1(u, IF u[1] \in {"-", "+"} THEN 2 ELSE 1)
    IN  Trimmed(Trim(s))

\* the number a comparison with 0 coerces a value to
ToNumber(x) ==
    CASE x.t = "number" -> x
      [] x.t = "string" -> StringToNumber(x.v)
      [] x.t = "null"   -> Num(0)
      [] OTHER          -> NaN

\* x > 0 and x < 0 as JavaScript evaluates them
GtZero(x) == LET Gt(n) == IsNum(n) /\ n.v > 0 IN Gt(ToNumber(x))
LtZero(x) == LET Lt(n) == IsNum(n) /\ n.v < 0 IN Lt(ToNumber(x))

----------------------------------------------------------------------------
(* types.ts                                                                *)

DEFAULT_CATEGORIES ==
    <<"Food & Dining", "Shopping", "Transportation", "Bills & Utilities",
      "Entertainment", "Health & Medical", "Travel", "Education", "Groceries",
      "Subscriptions & Software", "Gaming", "Transfer", "Income", "Other">>

CATEGORY_KEYWORDS ==
  <<
    [category |-> "Food & Dining", keywords |-> <<
        <<"r","e","s","t","a","u","r","a","n","t">>,
        <<"c","a","f","e">>,
        <<"c","o","f","f","e","e">>,
        <<"f","o","o","d">>,
        <<"p","i","z","z","a">>,
        <<"b","u","r","g","e","r">>,
        <<"k","f","c">>,
        <<"m","c","d","o","n","a","l","d">>,
        <<"s","t","a","r","b","u","c","k","s">>,
        <<"d","o","o","r","d","a","s","h">>,
        <<"u","b","e","r","e","a","t","s">>,
        <<"g","r","u","b","h","u","b">>,
        <<"d","i","n","e","r">>,
        <<"e","a","t","e","r","y">>,
        <<"k","i","t","c","h","e","n">>,
        <<"b","a","k","e","r","s">>,
        <<"b","a","k","e","r","y">>,
        <<"s","w","e","e","t">>,
        <<"c","r","e","m","e">>,
        <<"s","e","a","s","o","n","s"," ","f","o","o","d","s">> >>],
    [category |-> "Shopping", keywords |-> <<
        <<"a","m","a","z","o","n">>,
        <<"w","a","l","m","a","r","t">>,
        <<"t","a","r","g","e","t">>,
        <<"c","o","s","t","c","o">>,
        <<"e","b","a","y">>,
        <<"s","h","o","p">>,
        <<"s","t","o","r","e">>,
        <<"r","e","t","a","i","l">>,
        <<"m","a","l","l">>,
        <<"c","l","o","t","h","i","n","g">>,
        <<"f","a","s","h","i","o","n">>,
        <<"a","p","p","a","r","e","l">>,
        <<"d","a","r","a","z">>,
        <<"m","a","r","t">>,
        <<"c","i","t","i"," ","m","a","r","t">>,
        <<"s","u","p","e","r"," ","m","a","r","t">> >>],
    [category |-> "Transportation", keywords |-> <<
        <<"u","b","e","r">>,
        <<"l","y","f","t">>,
        <<"g","a","s">>,
        <<"f","u","e","l">>,
        <<"s","h","e","l","l">>,
        <<"b","p">>,
        <<"c","h","e","v","r","o","n">>,
        <<"e","x","x","o","n">>,
        <<"p","a","r","k","i","n","g">>,
        <<"t","o","l","l">>,
        <<"m","e","t","r","o">>,
        <<"b","u","s">>,
        <<"t","r","a","i","n">>,
        <<"t","r","a","n","s","i","t">>,
        <<"r","a","i","l","w","a","y">>,
        <<"a","r","a","m","c","o">> >>],
    [category |-> "Bills & Utilities", keywords |-> <<
        <<"e","l","e","c","t","r","i","c">>,
        <<"w","a","t","e","r">>,
        <<"g","a","s">>,
        <<"i","n","t","e","r","n","e","t">>,
        <<"p","h","o","n","e">>,
        <<"m","o","b","i","l","e">>,
        <<"v","e","r","i","z","o","n">>,
        <<"a","t","&","t">>,
        <<"c","o","m","c","a","s","t">>,
        <<"s","p","e","c","t","r","u","m">>,
        <<"u","t","i","l","i","t","y">>,
        <<"b","i","l","l">> >>],
    [category |-> "Entertainment", keywords |-> <<
        <<"n","e","t","f","l","i","x">>,
        <<"s","p","o","t","i","f","y">>,
        <<"h","u","l","u">>,
        <<"d","i","s","n","e","y">>,
        <<"h","b","o">>,
        <<"m","o","v","i","e">>,
        <<"c","i","n","e","m","a">>,
        <<"t","h","e","a","t","e","r">> >>],
    [category |-> "Gaming", keywords |-> <<
        <<"p","u","b","g">>,
        <<"p","u","b","g","m","o","b","i","l","e">>,
        <<"g","a","m","e">>,
        <<"p","l","a","y","s","t","a","t","i","o","n">>,
        <<"x","b","o","x">>,
        <<"s","t","e","a","m">>,
        <<"t","w","i","t","c","h">>,
        <<"e","p","i","c"," ","g","a","m","e","s">> >>],
    [category |-> "Subscriptions & Software", keywords |-> <<
        <<"c","u","r","s","o","r">>,
        <<"p","e","r","p","l","e","x","i","t","y">>,
        <<"c","a","n","v","a">>,
        <<"t","y","p","e","f","u","l","l","y">>,
        <<"r","e","n","d","e","r",".","c","o","m">>,
        <<"g","o","o","g","l","e"," ","c","l","o","u","d">>,
        <<"g","o","o","g","l","e"," ","o","n","e">>,
        <<"c","h","a","t","g","p","t">>,
        <<"c","l","a","u","d","e">>,
        <<"m","o","o","n","s","h","o","t">>,
        <<"n","a","n","o","n","o","b","l","e">>,
        <<"o","p","e","n","a","i">>,
        <<"a","n","t","h","r","o","p","i","c">> >>],
    [category |-> "Health & Medical", keywords |-> <<
        <<"p","h","a","r","m","a","c","y">>,
        <<"d","o","c","t","o","r">>,
        <<"h","o","s","p","i","t","a","l">>,
        <<"c","l","i","n","i","c">>,
        <<"m","e","d","i","c","a","l">>,
        <<"d","e","n","t","a","l">>,
        <<"h","e","a","l","t","h">>,
        <<"c","v","s">>,
        <<"w","a","l","g","r","e","e","n","s">>,
        <<"m","e","d","i","c","i","n","e">> >>],
    [category |-> "Travel", keywords |-> <<
        <<"h","o","t","e","l">>,
        <<"a","i","r","b","n","b">>,
        <<"f","l","i","g","h","t">>,
        <<"a","i","r","l","i","n","e">>,
        <<"d","e","l","t","a">>,
        <<"u","n","i","t","e","d">>,
        <<"a","m","e","r","i","c","a","n"," ","a","i","r","l","i","n","e","s">>,
        <<"s","o","u","t","h","w","e","s","t">>,
        <<"m","a","r","r","i","o","t","t">>,
        <<"h","i","l","t","o","n">>,
        <<"b","o","o","k","i","n","g">>,
        <<"e","x","p","e","d","i","a">> >>],
    [category |-> "Education", keywords |-> <<
        <<"s","c","h","o","o","l">>,
        <<"u","n","i","v","e","r","s","i","t","y">>,
        <<"c","o","l","l","e","g","e">>,
        <<"t","u","i","t","i","o","n">>,
        <<"c","o","u","r","s","e">>,
        <<"u","d","e","m","y">>,
        <<"c","o","u","r","s","e","r","a">>,
        <<"b","o","o","k">>,
        <<"l","i","b","r","a","r","y">> >>],
    [category |-> "Groceries", keywords |-> <<
        <<"g","r","o","c","e","r","y">>,
        <<"s","u","p","e","r","m","a","r","k","e","t">>,
        <<"w","h","o","l","e"," ","f","o","o","d","s">>,
        <<"t","r","a","d","e","r"," ","j","o","e">>,
        <<"k","r","o","g","e","r">>,
        <<"s","a","f","e","w","a","y">>,
        <<"a","l","d","i">>,
        <<"w","a","l","m","a","r","t"," ","g","r","o","c","e","r","y">> >>],
    [category |-> "Transfer", keywords |-> <<
        <<"t","r","a","n","s","f","e","r">>,
        <<"v","e","n","m","o">>,
        <<"z","e","l","l","e">>,
        <<"p","a","y","p","a","l">>,
        <<"c","a","s","h"," ","a","p","p">>,
        <<"w","i","r","e">>,
        <<"a","c","h">> >>],
    [category |-> "Income", keywords |-> <<
        <<"p","a","y","r","o","l","l">>,
        <<"s","a","l","a","r","y">>,
        <<"d","i","r","e","c","t"," ","d","e","p","o","s","i","t">>,
        <<"r","e","f","u","n","d">>,
        <<"c","a","s","h","b","a","c","k">>,
        <<"d","i","v","i","d","e","n","d">>,
        <<"i","n","t","e","r","e","s","t">> >>]
  >>


----------------------------------------------------------------------------
(* parser.ts: categorizer, validity filter, deduplicator                   *)

\* faulty variant: the last matching category wins
categorizeTransaction_LastMatch(description) ==
    LET lowerDesc == ToLowerCase(description)
        hit == {i \in DOMAIN CATEGORY_KEYWORDS :
                   \E k \in DOMAIN CATEGORY_KEYWORDS[i].keywords :
                       Includes(lowerDesc, CATEGORY_KEYWORDS[i].keywords[k])}
    IN  IF hit = {} THEN "Other" ELSE CATEGORY_KEYWORDS[CHOOSE i \in hit : \A j \in hit : j <= i].category

\* first category, in declaration order, one of whose keywords the lowercased
\* description contains
categorizeTransaction(description) ==
    LET lowerDesc == ToLowerCase(description)
        hit == {i \in DOMAIN CATEGORY_KEYWORDS :
                   \E k \in DOMAIN CATEGORY_KEYWORDS[i].keywords :
                       Includes(lowerDesc, CATEGORY_KEYWORDS[i].keywords[k])}
    IN  IF hit = {} THEN "Other" ELSE CATEGORY_KEYWORDS[Min(hit)].category

FAILED_KEYWORDS ==
    << <<"f","a","i","l","e","d">>,
       <<"d","e","c","l","i","n","e","d">>,
       <<"p","e","n","d","i","n","g">>,
       <<"r","e","v","e","r","s","e","d">>,
       <<"d","e","c","l","i","n","e","d">>,
       <<"f","a","i","l","e","d">>,
       <<"i","n","s","u","f","f","i","c","i","e","n","t">>,
       <<"o","v","e","r"," ","l","i","m","i","t">>,
       <<"a","u","t","h"," ","f","a","i","l","e","d">>,
       <<"t","r","a","n","s","a","c","t","i","o","n"," ","f","a","i","l","e","d">>,
       <<"p","a","y","m","e","n","t"," ","f","a","i","l","e","d">>,
       <<"p","u","r","c","h","a","s","e"," ","f","a","i","l","e","d">>,
       <<"c","a","n","c","e","l","l","e","d">>,
       <<"v","o","i","d","e","d">>,
       <<"r","e","j","e","c","t","e","d">>,
       <<"n","o","t"," ","c","o","m","p","l","e","t","e","d">>,
       <<"d","i","d"," ","n","o","t"," ","c","o","m","p","l","e","t","e">>,
       <<"a","t","t","e","m","p","t"," ","f","a","i","l","e","d">> >>

isValidTransaction(txn) ==
    LET lowerDesc == ToLowerCase(txn.description)
    IN  /\ ~\E k \in DOMAIN FAILED_KEYWORDS : Includes(lowerDesc, FAILED_KEYWORDS[k])
        /\ ~GtZero(txn.amount)

\* `${t.date}|${t.description.toLowerCase().trim()}|${t.amount}`
DedupKey(t) ==
    TemplateText(t.date) \o <<"|">> \o Trim(ToLowerCase(t.description)) \o <<"|">> \o TemplateText(t.amount)

\* the Map of the loop: a transaction is kept when no earlier one has its key
RECURSIVE DedupLoop(_, _, _)
DedupLoop(ts, seenKeys, kept) ==
    IF ts = <<>> THEN kept
    ELSE LET key == DedupKey(Head(ts))
         IN  IF key \in seenKeys
             THEN DedupLoop(Tail(ts), seenKeys, kept)
             ELSE DedupLoop(Tail(ts), seenKeys \cup {key}, Append(kept, Head(ts)))

\* faulty variant: the loop starts at the second element
deduplicateTransactions_SkipsFirst(ts) == DedupLoop(IF ts = <<>> THEN ts ELSE Tail(ts), {}, <<>>)

\* faulty variant: a later transaction with a seen key replaces the one kept
RECURSIVE DedupLoopLastWins(_, _)
DedupLoopLastWins(ts, kept) ==
    IF ts = <<>> THEN kept
    ELSE DedupLoopLastWins(Tail(ts),
             Append(SelectSeq(kept, LAMBDA u : DedupKey(u) # DedupKey(Head(ts))), Head(ts)))

deduplicateTransactions_LastWins(ts) == DedupLoopLastWins(ts, <<>>)

deduplicateTransactions(ts) == DedupLoop(ts, {}, <<>>)

----------------------------------------------------------------------------
(* parser.ts: formatDate                                                   *)

IsDateSep(c) == c \in {"/", "-"}

\* ^(\d+)[\/\-](\d+)[\/\-](\d+)$ : the three digit groups, or <<>>
DateParts(s) ==
    LET n1 == DigitRun(s, 1)
        p2 == n1 + 2
        n2 == DigitRun(s, p2)
        p3 == p2 + n2 + 1
        n3 == DigitRun(s, p3)
    IN  IF /\ n1 >= 1 /\ n2 >= 1 /\ n3 >= 1
           /\ IsDateSep(CharAt(s, n1 + 1))
           /\ IsDateSep(CharAt(s, p2 + n2))
           /\ p3 + n3 - 1 = Len(s)
        THEN <<SubSeq(s, 1, n1), SubSeq(s, p2, p2 + n2 - 1), SubSeq(s, p3, Len(s))>>
        ELSE <<>>

Dash == <<"-">>

\* which of formatDate's three patterns matches: 0 for none
\*   1  /^(\d{4})[\/\-](\d{1,2})[\/\-](\d{1,2})$/
\*   2  /^(\d{1,2})[\/\-](\d{1,2})[\/\-](\d{4})$/
\*   3  /^(\d{1,2})[\/\-](\d{1,2})[\/\-](\d{2})$/
DatePatternOf(g) ==
    IF g = <<>> THEN 0
    ELSE IF Len(g[1]) = 4 /\ Len(g[2]) \in 1..2 /\ Len(g[3]) \in 1..2 THEN 1
    ELSE IF Len(g[1]) \in 1..2 /\ Len(g[2]) \in 1..2 /\ Len(g[3]) = 4 THEN 2
    ELSE IF Len(g[1]) \in 1..2 /\ Len(g[2]) \in 1..2 /\ Len(g[3]) = 2 THEN 3
    ELSE 0

FormatDatePattern(dateStr) == DatePatternOf(DateParts(dateStr))

formatDate(dateStr) ==
    LET Formatted(g, k) ==
            IF k = 1 THEN g[1] \o Dash \o PadStart2(g[2]) \o Dash \o PadStart2(g[3])
            ELSE IF k = 2 THEN g[3] \o Dash \o PadStart2(g[1]) \o Dash \o PadStart2(g[2])
            ELSE IF k = 3
            THEN (IF ParseInt(g[3]) > 50 THEN <<"1","9">> ELSE <<"2","0">>) \o g[3]
                 \o Dash \o PadStart2(g[1]) \o Dash \o PadStart2(g[2])
            \* Return as-is if no format matched
            ELSE dateStr
        Matched(g) == Formatted(g, DatePatternOf(g))
    IN  Matched(DateParts(dateStr))

----------------------------------------------------------------------------
(* pdf-parser.ts: extractDate                                              *)

MONTHS ==
    << <<"j","a","n">>, <<"f","e","b">>, <<"m","a","r">>, <<"a","p","r">>,
       <<"m","a","y">>, <<"j","u","n">>, <<"j","u","l">>, <<"a","u","g">>,
       <<"s","e","p">>, <<"o","c","t">>, <<"n","o","v">>, <<"d","e","c">> >>

IsMonthAt(line, i) == i + 2 <= Len(line) /\ ToLowerCase(SubSeq(line, i, i + 2)) \in Range(MONTHS)

\* MONTHS[name]: '01' .. '12'
MonthNumber(name3) == PadStart2(NatToString(IndexIn(MONTHS, ToLowerCase(name3))))

NoMatch == [ok |-> FALSE]

\* the match at the leftmost position at which a pattern matches, attempts[i]
\* being the attempt at position i
Leftmost(attempts) ==
    LET I == {i \in 1..Len(attempts) : attempts[i].ok}
    IN  IF I = {} THEN NoMatch ELSE attempts[Min(I)]

\* DATE_MON_DD_YYYY = /\b(Jan|...|Dec)\s+(\d{1,2}),?\s+(\d{4})\b/i at position i
DateMonDdYyyyAt(line, i) ==
    LET w1 == SpaceRun(line, i + 3)
        pd == i + 3 + w1
        nd == DigitRun(line, pd)
        pw == IF CharAt(line, pd + nd) = "," THEN pd + nd + 1 ELSE pd + nd
        w2 == SpaceRun(line, pw)
        py == pw + w2
    IN  IF /\ WordBoundary(line, i)
           /\ IsMonthAt(line, i)
           /\ w1 >= 1 /\ nd \in 1..2 /\ w2 >= 1
           /\ DigitRun(line, py) = 4
           /\ WordBoundary(line, py + 4)
        THEN [ok |-> TRUE, from |-> i, to |-> py + 3,
              g |-> <<SubSeq(line, i, i + 2), SubSeq(line, pd, pd + nd - 1), SubSeq(line, py, py + 3)>>]
        ELSE NoMatch

\* DATE_DD_MON_YYYY = /\b(\d{1,2})\s+(Jan|...|Dec)\s+(\d{4})\b/i at position i
DateDdMonYyyyAt(line, i) ==
    LET nd == DigitRun(line, i)
        w1 == SpaceRun(line, i + nd)
        pm == i + nd + w1
        w2 == SpaceRun(line, pm + 3)
        py == pm + 3 + w2
    IN  IF /\ WordBoundary(line, i)
           /\ nd \in 1..2 /\ w1 >= 1
           /\ IsMonthAt(line, pm)
           /\ w2 >= 1
           /\ DigitRun(line, py) = 4
           /\ WordBoundary(line, py + 4)
        THEN [ok |-> TRUE, from |-> i, to |-> py + 3,
              g |-> <<SubSeq(line, i, i + nd - 1), SubSeq(line, pm, pm + 2), SubSeq(line, py, py + 3)>>]
        ELSE NoMatch

\* \b(\d{a})[\/\-](\d{1,2})[\/\-](\d{c})\b at position i, with the lengths
\* the first and the last group may have
DateNumericAt(line, i, firstLens, lastLens) ==
    LET n1 == DigitRun(line, i)
        p2 == i + n1 + 1
        n2 == DigitRun(line, p2)
        p3 == p2 + n2 + 1
        n3 == DigitRun(line, p3)
    IN  IF /\ WordBoundary(line, i)
           /\ n1 \in firstLens
           /\ IsDateSep(CharAt(line, i + n1))
           /\ n2 \in 1..2
           /\ IsDateSep(CharAt(line, p2 + n2))
           /\ n3 \in lastLens
           /\ WordBoundary(line, p3 + n3)
        THEN [ok |-> TRUE, from |-> i, to |-> p3 + n3 - 1,
              g |-> <<SubSeq(line, i, i + n1 - 1), SubSeq(line, p2, p2 + n2 - 1), SubSeq(line, p3, p3 + n3 - 1)>>]
        ELSE NoMatch

\* DATE_ISO = /\b(\d{4})[\/\-](\d{1,2})[\/\-](\d{1,2})\b/
DateIsoAt(line, i) == DateNumericAt(line, i, {4}, 1..2)

\* DATE_SLASH = /\b(\d{1,2})[\/\-](\d{1,2})[\/\-](\d{2,4})\b/
DateSlashAt(line, i) == DateNumericAt(line, i, 1..2, 2..4)

\* line.replace(m[0], '').trim()
Remainder(line, m) == Trim(ReplaceFirstText(line, SubSeq(line, m.from, m.to)))

\* extractDate once its four patterns have been tried: m1 .. m4 are the
\* matches of DATE_MON_DD_YYYY, DATE_DD_MON_YYYY, DATE_ISO and DATE_SLASH
ExtractDateFrom(line, m1, m2, m3, m4) ==
    LET yr == ParseInt(m3.g[1])
        mo == ParseInt(m3.g[2])
        dy == ParseInt(m3.g[3])
    IN  IF m1.ok
        THEN [ok |-> TRUE,
              dateStr |-> m1.g[3] \o Dash \o MonthNumber(m1.g[1]) \o Dash \o PadStart2(m1.g[2]),
              remainder |-> Remainder(line, m1)]
        ELSE IF m2.ok
        THEN [ok |-> TRUE,
              dateStr |-> m2.g[3] \o Dash \o MonthNumber(m2.g[2]) \o Dash \o PadStart2(m2.g[1]),
              remainder |-> Remainder(line, m2)]
        ELSE IF m3.ok /\ yr >= 1990 /\ yr <= 2100 /\ mo >= 1 /\ mo <= 12 /\ dy >= 1 /\ dy <= 31
        THEN [ok |-> TRUE,
              dateStr |-> m3.g[1] \o Dash \o PadStart2(m3.g[2]) \o Dash \o PadStart2(m3.g[3]),
              remainder |-> Remainder(line, m3)]
        ELSE IF m4.ok
        THEN [ok |-> TRUE,
              dateStr |-> (IF Len(m4.g[3]) = 2
                           THEN (IF ParseInt(m4.g[3]) > 50 THEN <<"1","9">> ELSE <<"2","0">>) \o m4.g[3]
                           ELSE m4.g[3])
                          \o Dash \o PadStart2(m4.g[1]) \o Dash \o PadStart2(m4.g[2]),
              remainder |-> Remainder(line, m4)]
        ELSE NoMatch

extractDate(line) ==
    ExtractDateFrom(line,
                    Leftmost([at \in 1..Len(line) |-> DateMonDdYyyyAt(line, at)]),
                    Leftmost([at \in 1..Len(line) |-> DateDdMonYyyyAt(line, at)]),
                    Leftmost([at \in 1..Len(line) |-> DateIsoAt(line, at)]),
                    Leftmost([at \in 1..Len(line) |-> DateSlashAt(line, at)]))

----------------------------------------------------------------------------
(* pdf-parser.ts: skip patterns                                            *)

\* A skip pattern is a list of atoms: a literal (matched ignoring case),
\* \s+ ("ws"), \d+ ("digits") or .* ("any"), anchored at the start (bol)
\* and at the end (eol) as the source's regular expression is.
SKIP_PATTERNS ==
  <<
    \* /document\s+number/i
    [bol |-> FALSE, eol |-> FALSE, atoms |-> <<
        [k |-> "lit", s |-> <<"d","o","c","u","m","e","n","t">>],
        [k |-> "ws"],
        [k |-> "lit", s |-> <<"n","u","m","b","e","r">>] >>],
    \* /statement\s+period/i
    [bol |-> FALSE, eol |-> FALSE, atoms |-> <<
        [k |-> "lit", s |-> <<"s","t","a","t","e","m","e","n","t">>],
        [k |-> "ws"],
        [k |-> "lit", s |-> <<"p","e","r","i","o","d">>] >>],
    \* /date\s+issued/i
    [bol |-> FALSE, eol |-> FALSE, atoms |-> <<
        [k |-> "lit", s |-> <<"d","a","t","e">>],
        [k |-> "ws"],
        [k |-> "lit", s |-> <<"i","s","s","u","e","d">>] >>],
    \* /card\s+number/i
    [bol |-> FALSE, eol |-> FALSE, atoms |-> <<
        [k |-> "lit", s |-> <<"c","a","r","d">>],
        [k |-> "ws"],
        [k |-> "lit", s |-> <<"n","u","m","b","e","r">>] >>],
    \* /client\s+number/i
    [bol |-> FALSE, eol |-> FALSE, atoms |-> <<
        [k |-> "lit", s |-> <<"c","l","i","e","n","t">>],
        [k |-> "ws"],
        [k |-> "lit", s |-> <<"n","u","m","b","e","r">>] >>],
    \* /consolidated/i
    [bol |-> FALSE, eol |-> FALSE, atoms |-> <<
        [k |-> "lit", s |-> <<"c","o","n","s","o","l","i","d","a","t","e","d">>] >>],
    \* /^date\s+description/i
    [bol |-> TRUE, eol |-> FALSE, atoms |-> <<
        [k |-> "lit", s |-> <<"d","a","t","e">>],
        [k |-> "ws"],
        [k |-> "lit", s |-> <<"d","e","s","c","r","i","p","t","i","o","n">>] >>],
    \* /transaction\s+amount$/i
    [bol |-> FALSE, eol |-> TRUE, atoms |-> <<
        [k |-> "lit", s |-> <<"t","r","a","n","s","a","c","t","i","o","n">>],
        [k |-> "ws"],
        [k |-> "lit", s |-> <<"a","m","o","u","n","t">>] >>],
    \* /redotpay\.com/i
    [bol |-> FALSE, eol |-> FALSE, atoms |-> <<
        [k |-> "lit", s |-> <<"r","e","d","o","t","p","a","y",".","c","o","m">>] >>],
    \* /red\s+dot\s+technology/i
    [bol |-> FALSE, eol |-> FALSE, atoms |-> <<
        [k |-> "lit", s |-> <<"r","e","d">>],
        [k |-> "ws"],
        [k |-> "lit", s |-> <<"d","o","t">>],
        [k |-> "ws"],
        [k |-> "lit", s |-> <<"t","e","c","h","n","o","l","o","g","y">>] >>],
    \* /queen.*road.*central/i
    [bol |-> FALSE, eol |-> FALSE, atoms |-> <<
        [k |-> "lit", s |-> <<"q","u","e","e","n">>],
        [k |-> "any"],
        [k |-> "lit", s |-> <<"r","o","a","d">>],
        [k |-> "any"],
        [k |-> "lit", s |-> <<"c","e","n","t","r","a","l">>] >>],
    \* /room\s+\d+/i
    [bol |-> FALSE, eol |-> FALSE, atoms |-> <<
        [k |-> "lit", s |-> <<"r","o","o","m">>],
        [k |-> "ws"],
        [k |-> "digits"] >>],
    \* /^\d+\/\d+$/
    [bol |-> TRUE, eol |-> TRUE, atoms |-> <<
        [k |-> "digits"],
        [k |-> "lit", s |-> <<"/">>],
        [k |-> "digits"] >>]
  >>

\* the atoms match the lowercased line from position i on
RECURSIVE AtomsMatch(_, _, _, _)
AtomsMatch(atoms, low, i, eol) ==
    IF atoms = <<>> THEN (~eol \/ i = Len(low) + 1)
    ELSE LET a == Head(atoms)
             rest == Tail(atoms)
         IN  CASE a.k = "lit"    -> StartsAt(low, i, a.s) /\ AtomsMatch(rest, low, i + Len(a.s), eol)
               [] a.k = "ws"     -> \E n \in 1..SpaceRun(low, i) : AtomsMatch(rest, low, i + n, eol)
               [] a.k = "digits" -> \E n \in 1..DigitRun(low, i) : AtomsMatch(rest, low, i + n, eol)
               [] a.k = "any"    -> \E j \in i..(Len(low) + 1) : AtomsMatch(rest, low, j, eol)

\* RegExp.prototype.test
PatternTest(p, line) ==
    LET low == ToLowerCase(line)
    IN  \E i \in (IF p.bol THEN {1} ELSE 1..(Len(line) + 1)) : AtomsMatch(p.atoms, low, i, p.eol)

\* faulty variant: only the first pattern is tested
shouldSkipLine_FirstOnly(line) == PatternTest(SKIP_PATTERNS[1], line)

\* SKIP_PATTERNS.some(p => p.test(line))
shouldSkipLine(line) == \E k \in DOMAIN SKIP_PATTERNS : PatternTest(SKIP_PATTERNS[k], line)

----------------------------------------------------------------------------
(* pdf-parser.ts: amount, currency, description                            *)

RECURSIVE AmountRun(_, _)
AmountRun(s, i) == IF i <= Len(s) /\ (IsDigit(s[i]) \/ s[i] = ",") THEN 1 + AmountRun(s, i + 1) ELSE 0

\* AMOUNT_RE = /(-?)[\s]?[\$]?([\d,]+\.\d{2})\b/ at position i
AmountAt(s, i) ==
    LET p1 == IF CharAt(s, i) = "-" THEN i + 1 ELSE i
        p2 == IF IsSpace(CharAt(s, p1)) THEN p1 + 1 ELSE p1
        p3 == IF CharAt(s, p2) = "$" THEN p2 + 1 ELSE p2
        n  == AmountRun(s, p3)
    IN  IF /\ n >= 1
           /\ CharAt(s, p3 + n) = "."
           /\ IsDigit(CharAt(s, p3 + n + 1))
           /\ IsDigit(CharAt(s, p3 + n + 2))
           /\ WordBoundary(s, p3 + n + 3)
        THEN [ok |-> TRUE, from |-> i, to |-> p3 + n + 2,
              g |-> <<SubSeq(s, i, p1 - 1), SubSeq(s, p3, p3 + n + 2)>>]
        ELSE NoMatch

CurrencyCodes == { <<"U","S","D">>, <<"P","K","R">>, <<"E","U","R">>, <<"G","B","P">> }

\* CURRENCY_SUFFIX = /\b(USD|PKR|EUR|GBP)\b/i at position i
CurrencyAt(s, i) ==
    IF /\ WordBoundary(s, i)
       /\ i + 2 <= Len(s)
       /\ ToUpperCase(SubSeq(s, i, i + 2)) \in CurrencyCodes
       /\ WordBoundary(s, i + 3)
    THEN [ok |-> TRUE, from |-> i, to |-> i + 2, g |-> <<SubSeq(s, i, i + 2)>>]
    ELSE NoMatch

\* String.prototype.replace(re, ''): the first match removed
RemoveMatch(s, m) == IF m.ok THEN Remove(s, m.from, m.to) ELSE s

EnDash == "en-dash"    \* the character U+2013

\* String.prototype.replace(/^\s*[-–]\s*/, '')
StripLeadingDash(s) ==
    LET w == SpaceRun(s, 1)
    IN  IF CharAt(s, w + 1) \in {"-", EnDash}
        THEN SubSeq(s, w + 2 + SpaceRun(s, w + 2), Len(s))
        ELSE s

\* remainder.match(AMOUNT_RE) and remainder.match(CURRENCY_SUFFIX)
AmountMatch(remainder) == Leftmost([at \in 1..Len(remainder) |-> AmountAt(remainder, at)])
CurrencyMatch(remainder) == Leftmost([at \in 1..Len(remainder) |-> CurrencyAt(remainder, at)])

\* the description, from the remainder without its amount
DescriptionWithoutAmount(a) ==
    Trim(CollapseSpaces(StripLeadingDash(RemoveMatch(a, CurrencyMatch(a)))))

\* the description of a line: the remainder without amount and currency
PdfDescription(remainder) ==
    DescriptionWithoutAmount(RemoveMatch(remainder, AmountMatch(remainder)))

----------------------------------------------------------------------------
(* pdf-parser.ts: extractTransactionsFromPDFText                           *)

USD == <<"U","S","D">>
PKR == <<"P","K","R">>

\* a line with a date, an amount match and a description: the transaction
\* pushed, if any
PdfCandidate(dateResult, amountMatch, currMatch, description, i, fileName, now) ==
    LET sign        == IF amountMatch.g[1] = <<"-">> THEN -1 ELSE 1
        parsed      == ParseFloat(StripChars(amountMatch.g[2], {","}))
        amount      == sign * parsed.v
        currency    == IF currMatch.ok THEN ToUpperCase(currMatch.g[1]) ELSE USD
        txn == [id          |-> <<fileName, i, now>>,
                date        |-> Str(dateResult.dateStr),
                description |-> Substring0(description, 100),
                amount      |-> Num(IF amount < 0 THEN amount ELSE -Abs(amount)),
                currency    |-> currency,
                category    |-> categorizeTransaction(description),
                sourceFile  |-> fileName]
    IN  IF ~amountMatch.ok THEN <<>>
        ELSE IF ~IsNum(parsed) THEN <<>>
        ELSE IF Len(description) < 2 THEN <<>>
        ELSE IF isValidTransaction(txn) THEN <<txn>>
        ELSE <<>>

\* a trimmed line and what extractDate found in it
PdfDatedLine(line, dateResult, i, fileName, now) ==
    IF Len(line) < 5 THEN <<>>
    ELSE IF shouldSkipLine(line) THEN <<>>
    ELSE IF ~dateResult.ok THEN <<>>
    ELSE PdfCandidate(dateResult,
                      AmountMatch(dateResult.remainder),
                      CurrencyMatch(dateResult.remainder),
                      PdfDescription(dateResult.remainder),
                      i, fileName, now)

PdfTrimmedLine(line, i, fileName, now) == PdfDatedLine(line, extractDate(line), i, fileName, now)

\* one line of the text, i its index from 0: the transaction pushed, if any
PdfLine(rawLine, i, fileName, now) == PdfTrimmedLine(Trim(rawLine), i, fileName, now)

RECURSIVE PdfLines(_, _, _, _)
PdfLines(lines, k, fileName, now) ==
    IF k > Len(lines) THEN <<>>
    ELSE PdfLine(lines[k], k - 1, fileName, now) \o PdfLines(lines, k + 1, fileName, now)

extractTransactionsFromPDFText(pdfText, fileName, now) ==
    PdfLines(SplitLines(pdfText), 1, fileName, now)

----------------------------------------------------------------------------
(* parser.ts: parseCSV                                                     *)

\* A parsed CSV (Papa.parse with header: true): keys, the header names in
\* order, and rows, each a sequence of cell texts, one per key.

HasAny(lower, words) == \E w \in words : Includes(lower, w)

DateWords   == { <<"d","a","t","e">>, <<"p","o","s","t","e","d">> }
DescWords   == { <<"d","e","s","c","r","i","p","t","i","o","n">>, <<"m","e","r","c","h","a","n","t">>,
                 <<"p","a","y","e","e">>, <<"t","r","a","n","s","a","c","t","i","o","n">> }
DebitWords  == { <<"d","e","b","i","t">> }
CreditWords == { <<"c","r","e","d","i","t">> }
AmountWords == { <<"a","m","o","u","n","t">>, <<"d","e","b","i","t">>, <<"c","r","e","d","i","t">>,
                 <<"v","a","l","u","e">> }

\* keys.find(k => pred(k)): the index of the first key, or 0 (undefined)
FindKey(keys, words) ==
    LET hit == {i \in DOMAIN keys : HasAny(ToLowerCase(keys[i]), words)}
    IN  IF hit = {} THEN 0 ELSE Min(hit)

\* keys.find(k => k has date/posted || lowerKeys.find(lk => lk has date/posted)) || keys[0]
\* The inner find yields a (truthy) key name whenever any key matches, so the
\* outer predicate holds of every key as soon as one key matches.
DateKey(keys) ==
    LET some == \E j \in DOMAIN keys : HasAny(ToLowerCase(keys[j]), DateWords)
        hit  == {i \in DOMAIN keys : HasAny(ToLowerCase(keys[i]), DateWords) \/ some}
    IN  IF hit = {} THEN 1 ELSE Min(hit)

DescKey(keys) == IF FindKey(keys, DescWords) = 0 THEN 2 ELSE FindKey(keys, DescWords)

\* row[key] || ''
Cell(row, k) == IF k \in DOMAIN row THEN row[k] ELSE <<>>

Quote == "\""
Backslash == "\\"

\* JSON.stringify of a string
JsonEscapeChar(c) ==
    CASE c = Quote     -> <<Backslash, Quote>>
      [] c = Backslash -> <<Backslash, Backslash>>
      [] c = "\t"      -> <<Backslash, "t">>
      [] c = "\n"      -> <<Backslash, "n">>
      [] OTHER         -> <<c>>

RECURSIVE JsonEscape(_)
JsonEscape(s) ==
    IF s = <<>> THEN <<>>
    ELSE IF Len(s) = 1 THEN JsonEscapeChar(s[1])
    ELSE LET h == Len(s) \div 2
         IN  JsonEscape(SubSeq(s, 1, h)) \o JsonEscape(SubSeq(s, h + 1, Len(s)))

JsonString(s) == <<Quote>> \o JsonEscape(s) \o <<Quote>>

RECURSIVE JsonMembers(_, _, _)
JsonMembers(keys, row, k) ==
    IF k > Len(keys) THEN <<>>
    ELSE (IF k > 1 THEN <<",">> ELSE <<>>)
         \o JsonString(keys[k]) \o <<":">> \o JsonString(Cell(row, k))
         \o JsonMembers(keys, row, k + 1)

\* JSON.stringify(row)
JsonStringifyRow(keys, row) == <<"{">> \o JsonMembers(keys, row, 1) \o <<"}">>

detectCurrency(content) ==
    IF \/ Includes(content, <<"p","k","r">>)
       \/ Includes(content, <<"r","s",".">>)
       \/ Includes(content, <<"r","s"," ">>)
    THEN PKR ELSE USD

\* the amount of a row: a number, NaN, or null when no column was found
CsvAmount(keys, row) ==
    LET Separate(debitVal, creditVal) ==
            IF IsNum(debitVal) /\ debitVal.v > 0 THEN Num(-debitVal.v)
            ELSE IF IsNum(creditVal) /\ creditVal.v > 0 THEN creditVal
            ELSE Num(0)
        Single(amountKey) ==
            IF amountKey # 0 THEN ParseFloat(StripChars(Cell(row, amountKey), {"$", ","}))
            ELSE Null
        Amount(debitKey, creditKey) ==
            IF debitKey # 0 /\ creditKey # 0
            THEN Separate(ParseFloat(StripChars(Cell(row, debitKey), {"$", ","})),
                          ParseFloat(StripChars(Cell(row, creditKey), {"$", ","})))
            ELSE Single(FindKey(keys, AmountWords))
    IN  Amount(FindKey(keys, DebitWords), FindKey(keys, CreditWords))

\* normalizeTransaction: <<the transaction>>, or <<>> for null
normalizeTransaction(keys, row, fileName, index, now) ==
    LET Normalized(date, description, amount) ==
            IF date = <<>> \/ amount = Null \/ amount = NaN THEN <<>>
            ELSE << [id          |-> <<fileName, index, now>>,
                     date        |-> Str(formatDate(date)),
                     description |-> Trim(description),
                     amount      |-> amount,
                     currency    |-> detectCurrency(ToLowerCase(JsonStringifyRow(keys, row))),
                     category    |-> categorizeTransaction(description),
                     sourceFile  |-> fileName] >>
    IN  Normalized(Cell(row, DateKey(keys)), Cell(row, DescKey(keys)), CsvAmount(keys, row))

\* .map(normalizeTransaction).filter(t => t !== null && isValidTransaction(t))
\* for one row
CsvRow(t) == IF t # <<>> /\ isValidTransaction(t[1]) THEN t ELSE <<>>

RECURSIVE CsvRows(_, _, _, _, _)
CsvRows(keys, rows, k, fileName, now) ==
    IF k > Len(rows) THEN <<>>
    ELSE CsvRow(normalizeTransaction(keys, rows[k], fileName, k - 1, now))
         \o CsvRows(keys, rows, k + 1, fileName, now)

parseCSV(csv, fileName, now) == CsvRows(csv.keys, csv.rows, 1, fileName, now)

----------------------------------------------------------------------------
(* ai.ts: oracle replies                                                   *)

\* A reply of the oracle is either a failed call (threw) or a text, held as
\* a sequence of tokens: "[", "]", ",", a run of other text ("text"), a JSON
\* scalar ("scalar", with its value) or a JSON object ("object", with the
\* values of its date, description, amount and currency members; a missing
\* member is Undefined).
LBracket == [k |-> "["]
RBracket == [k |-> "]"]
Comma    == [k |-> ","]
Text     == [k |-> "text"]
Scalar(x) == [k |-> "scalar", v |-> x]
Object(d, desc, a, c) == [k |-> "object", date |-> d, description |-> desc, amount |-> a, currency |-> c]

Threw == [threw |-> TRUE]
Returned(x) == [threw |-> FALSE, value |-> x]

\* JSON.parse of tokens[i..]: one value, and the position after it
RECURSIVE JsonValue(_, _)
RECURSIVE JsonElements(_, _, _)

JsonValue(tokens, i) ==
    IF i > Len(tokens) THEN NoMatch
    ELSE CASE tokens[i].k = "scalar" -> [ok |-> TRUE, val |-> tokens[i].v, next |-> i + 1]
           [] tokens[i].k = "object" -> [ok |-> TRUE, val |-> tokens[i], next |-> i + 1]
           [] tokens[i].k = "["      ->
                IF i + 1 <= Len(tokens) /\ tokens[i + 1].k = "]"
                THEN [ok |-> TRUE, val |-> [t |-> "array", v |-> <<>>], next |-> i + 2]
                ELSE JsonElements(tokens, i + 1, <<>>)
           [] OTHER -> NoMatch

\* the elements of an array after its "[" or a ",", up to its "]"
JsonElements(tokens, i, acc) ==
    LET e == JsonValue(tokens, i)
    IN  IF ~e.ok \/ e.next > Len(tokens) THEN NoMatch
        ELSE IF tokens[e.next].k = "]"
        THEN [ok |-> TRUE, val |-> [t |-> "array", v |-> Append(acc, e.val)], next |-> e.next + 1]
        ELSE IF tokens[e.next].k = ","
        THEN JsonElements(tokens, e.next + 1, Append(acc, e.val))
        ELSE NoMatch

\* JSON.parse of a whole text: the value, or a SyntaxError
JsonParse(tokens) ==
    LET r == JsonValue(tokens, 1)
    IN  IF r.ok /\ r.next = Len(tokens) + 1 THEN Returned(r.val) ELSE Threw

Positions(tokens, kind) == {i \in DOMAIN tokens : tokens[i].k = kind}
Max(S) == CHOOSE x \in S : \A y \in S : y <= x

\* response.match(/\[[\s\S]*\]/): from the first "[" to the last "]"
GreedyArrayMatch(tokens) ==
    LET open  == Positions(tokens, "[")
        close == IF open = {} THEN {} ELSE {j \in Positions(tokens, "]") : j > Min(open)}
    IN  IF close = {} THEN NoMatch ELSE [ok |-> TRUE, text |-> SubSeq(tokens, Min(open), Max(close))]

\* response.match(/\[[\s\S]*?\]/): from the first "[" to the first "]" after it
LazyArrayMatch(tokens) ==
    LET open  == Positions(tokens, "[")
        close == IF open = {} THEN {} ELSE {j \in Positions(tokens, "]") : j > Min(open)}
    IN  IF close = {} THEN NoMatch ELSE [ok |-> TRUE, text |-> SubSeq(tokens, Min(open), Min(close))]

----------------------------------------------------------------------------
(* ai.ts: aiCategorize                                                     *)

\* faulty variant: any string the oracle replies is taken as a category
IsLabel_AnyString(x) == "t" \in DOMAIN x /\ x.t = "string"

\* categories[i] is a string of DEFAULT_CATEGORIES (an object, an array, a
\* number or null is not)
IsLabel(x) == "t" \in DOMAIN x /\ x.t = "string" /\ x.v \in Range(DEFAULT_CATEGORIES)

\* categories[i] && DEFAULT_CATEGORIES.includes(categories[i]) ? categories[i] : t.category
Recategorized(ts, categories) ==
    [i \in DOMAIN ts |->
        IF i \in DOMAIN categories /\ IsLabel(categories[i])
        THEN [ts[i] EXCEPT !.category = categories[i].v]
        ELSE ts[i]]

\* faulty variant: a failed oracle call loses the batch
aiCategorize_FailureDrops(ts, enabled, reply) ==
    LET jsonMatch == GreedyArrayMatch(reply.tokens)
        parsed    == JsonParse(jsonMatch.text)
    IN  IF ~enabled \/ ts = <<>> THEN ts
        ELSE IF reply.threw THEN <<>>
        ELSE IF ~jsonMatch.ok THEN ts
        ELSE IF parsed.threw THEN ts
        ELSE Recategorized(ts, parsed.value.v)

\* aiCategorize(transactions) when the oracle answers reply
aiCategorize(ts, enabled, reply) ==
    LET jsonMatch == GreedyArrayMatch(reply.tokens)
        parsed    == JsonParse(jsonMatch.text)
    IN  IF ~enabled \/ ts = <<>> THEN ts
        ELSE IF reply.threw THEN ts
        ELSE IF ~jsonMatch.ok THEN ts
        ELSE IF parsed.threw THEN ts
        ELSE Recategorized(ts, parsed.value.v)

----------------------------------------------------------------------------
(* ai.ts: aiExtractFromImage                                               *)

\* r.description.substring / toLowerCase, r.currency?.toUpperCase() raise a
\* TypeError on these elements
ImageElementThrows(r) ==
    \/ ~("k" \in DOMAIN r /\ r.k = "object")
    \/ r.description.t # "string"
    \/ r.currency.t \notin {"string", "undefined", "null"}

ImageTransaction(r, i, fileName, now) ==
    [id          |-> <<fileName, "img", i, now>>,
     date        |-> r.date,
     description |-> Substring0(r.description.v, 100),
     amount      |-> r.amount,
     currency    |-> IF r.currency.t = "string" /\ r.currency.v # <<>>
                     THEN ToUpperCase(r.currency.v) ELSE USD,
     category    |-> categorizeTransaction(r.description.v),
     sourceFile  |-> fileName]

\* aiExtractFromImage(imageBase64, fileName) when the oracle answers reply:
\* the transactions returned, or the error raised to the caller
aiExtractFromImage(enabled, reply, fileName, now) ==
    LET jsonMatch == LazyArrayMatch(reply.tokens)
        parsed    == JsonParse(jsonMatch.text)
        raw       == parsed.value.v
    IN  IF ~enabled THEN Threw
        ELSE IF reply.threw THEN Threw
        ELSE IF ~jsonMatch.ok THEN Returned(<<>>)
        ELSE IF parsed.threw THEN Threw
        ELSE IF \E i \in DOMAIN raw : ImageElementThrows(raw[i]) THEN Threw
        ELSE Returned([i \in DOMAIN raw |-> ImageTransaction(raw[i], i - 1, fileName, now)])

----------------------------------------------------------------------------
(* Calls of the pure functions                                             *)

\* The store and the oracle are idle while a pure function is exercised.
StoreIdle == transactions = <<>> /\ aiKey = FALSE /\ clock = 0 /\ calls = <<>>
StoreUnchanged == UNCHANGED <<transactions, aiKey, clock, calls>>

----------------------------------------------------------------------------
(* deduplicateTransactions on its own                                      *)

MaxDedupLen == 3      \* longest list handed to deduplicateTransactions

\* what the extractors emit for a few rows: two dates, a description in
\* three spellings of two merchants (the screenshot path does not trim),
\* two currencies
DedupShapes ==
    { [date        |-> Str(d),
       description |-> desc,
       amount      |-> Num(-1599),
       currency    |-> c,
       category    |-> categorizeTransaction(desc),
       sourceFile  |-> "a.csv"] :
        d \in { <<"2","0","2","6","-","0","2","-","0","7">>, <<"2","0","2","6","-","0","2","-","0","8">> },
        desc \in { <<"N","e","t","f","l","i","x">>, <<" ","N","E","T","F","L","I","X"," ">>, <<"U","b","e","r">> },
        c \in { USD, PKR } }

\* a list of transactions, each with the id of its row
WithIds(shapes) == [i \in DOMAIN shapes |-> [id |-> <<"a.csv", i - 1, 0>>] @@ shapes[i]]

\* the lists of at most n transactions
DedupInputs(n) == UNION { {WithIds(s) : s \in [1..k -> DedupShapes]} : k \in 0..n }

InitDedupFn ==
    /\ StoreIdle
    /\ input \in DedupInputs(MaxDedupLen)
    /\ output = <<>>
    /\ phase = "idle"

\* deduplicateTransactions(input)
CallDedup ==
    /\ phase = "idle"
    /\ output' = <<deduplicateTransactions(input)>>
    /\ phase' = "dedup"
    /\ UNCHANGED input
    /\ StoreUnchanged

\* deduplicateTransactions applied to its own result
CallDedupAgain ==
    /\ phase = "dedup"
    /\ output' = Append(output, deduplicateTransactions(output[1]))
    /\ phase' = "dedup2"
    /\ UNCHANGED input
    /\ StoreUnchanged

NextDedupFn == CallDedup \/ CallDedupAgain

SpecDedupFn == InitDedupFn /\ [][NextDedupFn]_vars

\* The key of the Deduplicator as the specification words it:
\* date | lowercased-trimmed description | amount.
KeyText(t) ==
    TemplateText(t.date) \o <<"|">> \o Trim(ToLowerCase(t.description)) \o <<"|">> \o TemplateText(t.amount)

\* the elements of s at the positions of I, in order
RECURSIVE PickFrom(_, _, _)
PickFrom(s, I, k) ==
    IF k > Len(s) THEN <<>>
    ELSE (IF k \in I THEN <<s[k]>> ELSE <<>>) \o PickFrom(s, I, k + 1)

\* the transactions of s that are the first of s with their key
FirstPerKey(s) ==
    PickFrom(s, {i \in DOMAIN s : \A j \in 1..(i - 1) : KeyText(s[j]) # KeyText(s[i])}, 1)

\* C1: deduplicateTransactions is idempotent: deduplicating its own result
\* returns that result, same elements in the same order.
C1_DedupIdempotent ==
    phase = "dedup2" => output[2] = output[1]

\* a list with duplicates was deduplicated to two or more elements, then again
C1_Witness ==
    /\ phase = "dedup2"
    /\ Len(output[1]) < Len(input)
    /\ Len(output[1]) >= 2

\* C2: the result holds, for each key date|lowercased-trimmed description|amount,
\* exactly the first transaction of the input with that key, in input order;
\* currency, id, category and sourceFile are no part of the key.
C2_DedupKeepsFirstPerKey ==
    phase \in {"dedup", "dedup2"} => output[1] = FirstPerKey(input)

\* two transactions that differ in currency (and id) only: the first is kept,
\* the second dropped
C2_Witness ==
    /\ phase = "dedup"
    /\ \E i, j \in DOMAIN input :
          /\ i < j
          /\ input[i].currency # input[j].currency
          /\ [input[j] EXCEPT !.currency = input[i].currency, !.id = input[i].id] = input[i]
          /\ input[i] \in Range(output[1])
          /\ input[j] \notin Range(output[1])

----------------------------------------------------------------------------
(* formatDate and extractDate on their own                                 *)

\* the numbers a date cell or a statement line is written with
DateNumbers ==
    { <<"2">>, <<"0","2">>, <<"0","7">>, <<"1","3">>, <<"4","5">>, <<"9","9">>,
      <<"1","2","3">>, <<"2","0","2","6">> }

DateMonthNames == { <<"F","e","b">>, <<"D","E","C">>, <<"F","o","o">> }

\* number, separator, number, separator, number
NumericDateTokens ==
    { a \o sep \o b \o sep \o c : a \in DateNumbers, b \in DateNumbers, c \in DateNumbers,
                                  sep \in { <<"/">>, <<"-">> } }

\* "Mon DD, YYYY", "Mon DD YYYY" and "DD Mon YYYY"
MonthNameDateTokens ==
    UNION { { mon \o <<" ">> \o d \o <<",", " ">> \o y,
              mon \o <<" ">> \o d \o <<" ">> \o y,
              d \o <<" ">> \o mon \o <<" ">> \o y } :
            mon \in DateMonthNames,
            d \in { <<"7">>, <<"0","7">>, <<"9","9">> },
            y \in { <<"2","0","2","6">>, <<"1","2","3">> } }

DateInputs == NumericDateTokens \cup MonthNameDateTokens

InitDate ==
    /\ StoreIdle
    /\ input \in DateInputs
    /\ output = <<>>
    /\ phase = "idle"

\* formatDate(input), as normalizeTransaction calls it on the date cell
CallFormatDate ==
    /\ phase = "idle"
    /\ output' = <<[matched |-> FormatDatePattern(input) # 0, date |-> formatDate(input)]>>
    /\ phase' = "formatDate"
    /\ UNCHANGED input
    /\ StoreUnchanged

\* extractDate(input), as extractTransactionsFromPDFText calls it on a line
CallExtractDate ==
    /\ phase = "idle"
    /\ output' = LET r == extractDate(input)
                 IN  <<[matched |-> r.ok, date |-> IF r.ok THEN r.dateStr ELSE <<>>]>>
    /\ phase' = "extractDate"
    /\ UNCHANGED input
    /\ StoreUnchanged

NextDate == CallFormatDate \/ CallExtractDate

SpecDate == InitDate /\ [][NextDate]_vars

\* the four spellings of 7 February 2026 and their canonical form
Feb07Tokens ==
    { <<"F","e","b"," ","0","7",","," ","2","0","2","6">>,
      <<"0","7"," ","F","e","b"," ","2","0","2","6">>,
      <<"0","2","/","0","7","/","2","0","2","6">>,
      <<"2","0","2","6","-","0","2","-","0","7">> }

Feb07Canonical == <<"2","0","2","6","-","0","2","-","0","7">>

\* YYYY-MM-DD with the month in 01..12 and the day in 01..31
IsCanonicalDate(d) ==
    /\ Len(d) = 10
    /\ d[5] = "-" /\ d[8] = "-"
    /\ \A i \in {1, 2, 3, 4, 6, 7, 9, 10} : IsDigit(d[i])
    /\ DigitsValue(SubSeq(d, 6, 7)) \in 1..12
    /\ DigitsValue(SubSeq(d, 9, 10)) \in 1..31

\* C9: the date normalization of the extractors (formatDate on the CSV path,
\* extractDate on the PDF path) maps "Feb 07, 2026", "07 Feb 2026",
\* "02/07/2026" and "2026-02-07" to "2026-02-07".
C9_Feb07Normalizes ==
    (phase \in {"formatDate", "extractDate"} /\ input \in Feb07Tokens)
        => output[1].date = Feb07Canonical

\* C10: whenever a pattern of formatDate or extractDate matches, the result is
\* a YYYY-MM-DD string with the month in 01..12 and the day in 01..31.
C10_ParsedDateInRange ==
    (phase \in {"formatDate", "extractDate"} /\ output[1].matched)
        => IsCanonicalDate(output[1].date)

----------------------------------------------------------------------------
(* The extractors and aiCategorize on their own                            *)

MaxRows == 2          \* most rows of a CSV, lines of a PDF text, objects of a reply

DescriptionLimit == 100

\* a description of 102 characters whose 100th character is a space
LongDescription == [i \in 1..(DescriptionLimit - 1) |-> "a"] \o <<" ","b","c">>

\* the rows of a statement, as date, description and amount texts
StatementRows ==
    { [date |-> <<"0","2","/","0","7","/","2","0","2","6">>, description |-> <<"N","e","t","f","l","i","x"," ","S","u","b","s","c","r","i","p","t","i","o","n">>, amount |-> <<"-","1","5",".","9","9">>],
      [date |-> <<"0","2","/","0","8","/","2","0","2","6">>, description |-> <<" ","U","b","e","r"," ","T","r","i","p"," ">>,          amount |-> <<"-","$","1",",","2","5","0",".","0","0">>],
      [date |-> <<"0","2","/","0","7","/","2","0","2","6">>, description |-> <<>>,                     amount |-> <<"-","5",".","0","0">>],
      [date |-> <<"0","2","/","0","7","/","2","0","2","6">>, description |-> <<"P","a","y","m","e","n","t"," ","F","a","i","l","e","d">>,       amount |-> <<"-","5",".","0","0">>],
      [date |-> <<"2","0","2","6","-","0","1","-","0","5">>, description |-> <<"P","a","y","c","h","e","c","k">>,             amount |-> <<"2","5","0","0",".","0","0">>],
      [date |-> <<"0","2","/","0","7","/","2","0","2","6">>, description |-> LongDescription,          amount |-> <<"-","5",".","0","0">>],
      [date |-> <<"0","2","/","0","7","/","2","0","2","6">>, description |-> <<"C","o","f","f","e","e">>,               amount |-> <<"a","b","c">>] }

\* the header layouts of a CSV
CsvLayouts ==
    { << <<"D","a","t","e">>, <<"D","e","s","c","r","i","p","t","i","o","n">>, <<"A","m","o","u","n","t">> >>,
      << <<"D","e","s","c","r","i","p","t","i","o","n">>, <<"D","a","t","e">>, <<"A","m","o","u","n","t">> >>,
      << <<"P","o","s","t","e","d">>, <<"M","e","r","c","h","a","n","t">>, <<"D","e","b","i","t">>, <<"C","r","e","d","i","t">> >> }

\* the cell of a row under a header
CsvCell(key, r) ==
    LET k == ToLowerCase(key)
    IN  CASE k \in DateWords -> r.date
          [] k \in DescWords -> r.description
          [] k = <<"a","m","o","u","n","t">> -> r.amount
          [] k = <<"d","e","b","i","t">>  -> IF r.amount # <<>> /\ r.amount[1] = "-" THEN Tail(r.amount) ELSE <<>>
          [] k = <<"c","r","e","d","i","t">> -> IF r.amount # <<>> /\ r.amount[1] = "-" THEN <<>> ELSE r.amount
          [] OTHER -> <<>>

CsvFile(keys, rows) == [keys |-> keys, rows |-> [i \in DOMAIN rows |-> [j \in DOMAIN keys |-> CsvCell(keys[j], rows[i])]]]

\* sequences of 1 to n elements of S
SeqsUpTo(S, n) == UNION { [1..k -> S] : k \in 1..n }

\* a file with Date, Description, Debit and Credit columns and one credit row
PaycheckFile ==
    [kind |-> "csv", name |-> "a.csv",
     csv |-> CsvFile(<< <<"D","a","t","e">>, <<"D","e","s","c","r","i","p","t","i","o","n">>, <<"D","e","b","i","t">>, <<"C","r","e","d","i","t">> >>,
                     << [date |-> <<"2","0","2","6","-","0","1","-","0","5">>, description |-> <<"P","a","y","c","h","e","c","k">>, amount |-> <<"2","5","0","0",".","0","0">>] >>)]

\* a file none of whose headers names a date or a description
LedgerFile ==
    [kind |-> "csv", name |-> "a.csv",
     csv |-> [keys |-> << <<"W","h","e","n">>, <<"M","e","m","o">>, <<"A","m","o","u","n","t">> >>,
              rows |-> << << <<"0","2","/","0","7","/","2","0","2","6">>, <<"C","o","f","f","e","e">>, <<"-","5",".","0","0">> >> >>]]

\* the CSV files of at most n rows
CsvInputs(n) ==
    { [kind |-> "csv", name |-> "a.csv", csv |-> CsvFile(keys, rows)] :
        keys \in CsvLayouts, rows \in SeqsUpTo(StatementRows, n) }
    \cup {PaycheckFile, LedgerFile}

\* the lines of a statement's text
StatementLines ==
    { <<"0","2","/","0","7","/","2","0","2","6"," ","N","e","t","f","l","i","x"," ","S","u","b","s","c","r","i","p","t","i","o","n"," ","-","1","5",".","9","9">>,
      <<"F","e","b"," ","0","8",","," ","2","0","2","6"," ","U","b","e","r"," ","T","r","i","p"," ","1",",","2","5","0",".","0","0"," ","P","K","R">>,
      <<"0","7"," ","F","e","b"," ","2","0","2","6"," ","x"," ","-","5",".","0","0">>,
      <<"0","2","/","0","7","/","2","0","2","6"," ","P","a","y","m","e","n","t"," ","F","a","i","l","e","d"," ","-","5",".","0","0">>,
      <<"2","0","2","6","-","0","2","-","0","7"," ","P","a","y","c","h","e","c","k"," ","+","1","5","0","0",".","0","0">>,
      <<"0","2","/","0","7","/","2","0","2","6"," ">> \o LongDescription \o <<" ","-","5",".","0","0">>,
      <<"P","a","g","e"," ","1"," ","o","f"," ","3">>,
      <<"S","t","a","t","e","m","e","n","t"," ","P","e","r","i","o","d"," ","0","1","/","0","1","/","2","0","2","6"," ","t","o"," ","0","1","/","3","1","/","2","0","2","6">>,
      <<"C","a","r","d"," ","N","u","m","b","e","r"," ","0","2","/","0","7","/","2","0","2","6"," ","5",".","0","0">> }

RECURSIVE JoinLines(_)
JoinLines(lines) ==
    IF lines = <<>> THEN <<>>
    ELSE IF Len(lines) = 1 THEN lines[1]
    ELSE lines[1] \o <<"\n">> \o JoinLines(Tail(lines))

\* the PDF texts of at most n lines
PdfInputs(n) ==
    { [kind |-> "pdf", name |-> "b.pdf", pdfText |-> JoinLines(lines)] :
        lines \in SeqsUpTo(StatementLines, n) }

\* the elements of the array the vision oracle replies
ImageElements ==
    { Object(Str(<<"2","0","2","6","-","0","2","-","0","7">>), Str(<<"N","e","t","f","l","i","x"," ","S","u","b","s","c","r","i","p","t","i","o","n">>), Num(-1599), Str(<<"u","s","d">>)),
      Object(Str(<<"2","0","2","6","-","0","2","-","0","8">>), Str(<<" ","U","b","e","r"," ","T","r","i","p"," ">>), Num(-125000), Undefined),
      Object(Str(<<"2","0","2","6","-","0","2","-","0","7">>), Str(<<"P","a","y","m","e","n","t"," ","P","e","n","d","i","n","g">>), Num(2500), Null),
      Object(Str(<<"2","0","2","6","-","0","2","-","0","7">>), Str(<<>>), Num(-500), Str(<<"P","K","R">>)),
      Object(Str(<<"2","0","2","6","-","0","2","-","0","7">>), Str(<<"C","o","f","f","e","e">>), Undefined, Str(<<"U","S","D">>)),
      Object(Str(<<"2","0","2","6","-","0","2","-","0","7">>), Str(<<" ">> \o LongDescription), Num(-500), Str(<<"U","S","D">>)),
      Object(Str(<<"F","e","b"," ","7">>), Undefined, Num(-500), Str(<<"U","S","D">>)) }

RECURSIVE CommaSeparated(_)
CommaSeparated(elems) ==
    IF elems = <<>> THEN <<>>
    ELSE IF Len(elems) = 1 THEN <<elems[1]>>
    ELSE <<elems[1], Comma>> \o CommaSeparated(Tail(elems))

ArrayText(elems) == <<LBracket>> \o CommaSeparated(elems) \o <<RBracket>>

Said(tokens) == [threw |-> FALSE, tokens |-> tokens]
Failed == [threw |-> TRUE, tokens |-> <<>>]

\* the replies of the vision oracle: a failed call, prose only, an empty, a
\* malformed or a cut-off array, an array on its own or within prose, an
\* array after a bracketed remark; the arrays hold at most n elements
ImageReplies(n) ==
    { Failed, Said(<<Text>>), Said(<<LBracket, RBracket>>), Said(<<LBracket, Text, RBracket>>),
      Said(<<LBracket, Scalar(Null), Comma>>) }
    \cup UNION { { Said(ArrayText(elems)),
                   Said(<<Text>> \o ArrayText(elems) \o <<Text>>),
                   Said(<<LBracket, Scalar(Num(100)), RBracket, Text>> \o ArrayText(elems)) } :
                 elems \in SeqsUpTo(ImageElements, n) }

ImageInputs(n) == { [kind |-> "image", name |-> "c.png", reply |-> r] : r \in ImageReplies(n) }

\* the replies of the categorizing oracle
CategorizeReplies ==
    { Failed, Said(<<Text>>), Said(<<LBracket, RBracket>>),
      Said(ArrayText(<<Scalar(Str("Shopping"))>>)),
      Said(<<Text>> \o ArrayText(<<Scalar(Str("Travel")), Scalar(Str("Groceries")), Scalar(Str("Other"))>>) \o <<Text>>),
      Said(ArrayText(<<Scalar(Str("Bogus")), Scalar(Str("Shopping"))>>)),
      Said(ArrayText(<<Scalar(Str("shopping")), Scalar(Str(""))>>)),
      Said(ArrayText(<<Scalar(Num(100)), Scalar(Null), Scalar(Str("Income"))>>)),
      Said(ArrayText(<<Object(Undefined, Undefined, Undefined, Undefined)>>)),
      Said(<<LBracket>> \o ArrayText(<<Scalar(Str("Shopping"))>>) \o <<Comma, Scalar(Str("Gaming")), RBracket>>),
      Said(ArrayText(<<Scalar(Str("Shopping"))>>) \o <<Text>> \o ArrayText(<<Scalar(Str("Travel"))>>)),
      Said(<<LBracket, Scalar(Str("Shopping")), Comma, RBracket>>) }

InitExtract ==
    /\ transactions = <<>> /\ clock = 0 /\ calls = <<>>
    /\ aiKey \in BOOLEAN
    /\ \/ input \in CsvInputs(MaxRows)
       \/ input \in PdfInputs(MaxRows)
       \/ input \in ImageInputs(MaxRows)
    /\ output = <<>>
    /\ phase = "idle"

\* parseCSV(content, file.name)
CallParseCSV ==
    /\ phase = "idle"
    /\ input.kind = "csv"
    /\ output' = parseCSV(input.csv, input.name, clock)
    /\ phase' = "csv"
    /\ UNCHANGED input
    /\ StoreUnchanged

\* extractTransactionsFromPDFText(fullText, file.name)
CallExtractPDF ==
    /\ phase = "idle"
    /\ input.kind = "pdf"
    /\ output' = extractTransactionsFromPDFText(input.pdfText, input.name, clock)
    /\ phase' = "pdf"
    /\ UNCHANGED input
    /\ StoreUnchanged

\* aiExtractFromImage(base64, file.name): its result, or the error it raises
CallImage ==
    /\ phase = "idle"
    /\ input.kind = "image"
    /\ LET r == aiExtractFromImage(aiKey, input.reply, input.name, clock)
       IN  IF r.threw
           THEN output' = <<>> /\ phase' = "imageError"
           ELSE output' = r.value /\ phase' = "image"
    /\ UNCHANGED input
    /\ StoreUnchanged

\* aiCategorize(transactions) on what an extractor returned
CallAiCategorize ==
    /\ phase \in {"csv", "pdf", "image"}
    /\ \E reply \in CategorizeReplies : output' = aiCategorize(output, aiKey, reply)
    /\ phase' = "categorized"
    /\ UNCHANGED input
    /\ StoreUnchanged

NextExtract == CallParseCSV \/ CallExtractPDF \/ CallImage \/ CallAiCategorize

SpecExtract == InitExtract /\ [][NextExtract]_vars

\* a state in which output holds transactions an extractor emitted
Emitted == phase \in {"csv", "pdf", "image", "categorized"}

\* C5: every transaction an extractor emits has a description of at least
\* two characters; a candidate with a shorter description is discarded.
C5_DescriptionAtLeastTwo ==
    Emitted => \A i \in DOMAIN output : Len(output[i].description) >= 2

\* C6: every transaction an extractor emits has a number for its amount: a
\* candidate whose amount is missing or does not parse is discarded, on the
\* CSV, the PDF and the image path alike.
C6_AmountIsNumber ==
    Emitted => \A i \in DOMAIN output : IsNum(output[i].amount)

\* C7: the category of every transaction is one of DEFAULT_CATEGORIES, as the
\* keyword matcher of each extractor sets it and after aiCategorize, whatever
\* the oracle replies.
C7_CategoryInFixedSet ==
    Emitted => \A i \in DOMAIN output : output[i].category \in Range(DEFAULT_CATEGORIES)

\* aiCategorize replaced the keyword category of a transaction
C7_Witness ==
    /\ phase = "categorized"
    /\ aiKey
    /\ \E i \in DOMAIN output :
          output[i].category # categorizeTransaction(output[i].description)

\* C8: the description of every emitted transaction is trimmed and at most
\* 100 characters long, whichever extractor produced it.
C8_DescriptionTrimmedAndShort ==
    Emitted => \A i \in DOMAIN output :
        /\ Trim(output[i].description) = output[i].description
        /\ Len(output[i].description) <= DescriptionLimit

----------------------------------------------------------------------------
(* The transaction store of the Home page                                  *)

MaxFiles  == 2        \* most files of one upload
MaxStored == 3        \* most transactions stored or awaited
MaxCalls  == 1        \* most handleFilesParsed runs awaiting the oracle
MaxClock  == 1        \* last value of Date.now()

NetflixRow == [date |-> <<"0","2","/","0","7","/","2","0","2","6">>, description |-> <<"N","e","t","f","l","i","x"," ","S","u","b","s","c","r","i","p","t","i","o","n">>, amount |-> <<"-","1","5",".","9","9">>]

\* the files a user uploads; a screenshot carries what the vision oracle
\* reads from it
StoreFiles ==
    { [kind |-> "csv", name |-> "a.csv",
       csv |-> CsvFile(<< <<"D","a","t","e">>, <<"D","e","s","c","r","i","p","t","i","o","n">>, <<"A","m","o","u","n","t">> >>, <<NetflixRow>>)],
      [kind |-> "pdf", name |-> "b.pdf",
       pdfText |-> JoinLines(<< <<"0","2","/","0","7","/","2","0","2","6"," ","N","e","t","f","l","i","x"," ","S","u","b","s","c","r","i","p","t","i","o","n"," ","-","1","5",".","9","9">>,
                                <<"F","e","b"," ","0","8",","," ","2","0","2","6"," ","U","b","e","r"," ","T","r","i","p"," ","1",",","2","5","0",".","0","0"," ","P","K","R">> >>)],
      [kind |-> "image", name |-> "c.png",
       reply |-> Said(ArrayText(<<
           Object(Str(<<"2","0","2","6","-","0","2","-","0","7">>), Str(<<"P","a","y","m","e","n","t"," ","P","e","n","d","i","n","g">>), Num(2500), Null) >>))],
      [kind |-> "image", name |-> "d.png", reply |-> Said(<<LBracket, Text, RBracket>>)] }

StoreFileNames == {f.name : f \in StoreFiles}

\* the replies of the categorizing oracle to a batch
StoreCategorizeReplies ==
    { Failed, Said(ArrayText(<<Scalar(Str("Shopping")), Scalar(Str("Bogus"))>>)) }

\* what the extractor of a file returns at time now, before any
\* categorization by the oracle: a list, or the error raised
Extract(f, now) ==
    CASE f.kind = "image" -> aiExtractFromImage(TRUE, f.reply, f.name, now)
      [] f.kind = "pdf"   -> Returned(extractTransactionsFromPDFText(f.pdfText, f.name, now))
      [] f.kind = "csv"   -> Returned(parseCSV(f.csv, f.name, now))

\* Extract, computed once for each file and time
Extracted == [f \in StoreFiles |-> [now \in 0..MaxClock |-> Extract(f, now)]]

\* the body of the loop of processFiles for one file: the transactions
\* pushed to allTransactions
ProcessFile(f, enabled, reply, now) ==
    LET Pushed(r) ==
            IF f.kind = "image"
            THEN (IF ~enabled \/ r.threw THEN <<>> ELSE r.value)
            ELSE IF enabled /\ r.value # <<>> THEN aiCategorize(r.value, enabled, reply)
            ELSE r.value
    IN  Pushed(Extracted[f][now])

\* allTransactions after the loop of processFiles
RECURSIVE ProcessFiles(_, _, _, _, _)
ProcessFiles(files, k, enabled, replies, now) ==
    IF k > Len(files) THEN <<>>
    ELSE ProcessFile(files[k], enabled, replies[k], now)
         \o ProcessFiles(files, k + 1, enabled, replies, now)

\* setTransactions(prev => [...prev, ...processed]) of page.tsx
handleFilesParsed(prev, processed) == prev \o processed

\* setTransactions(prev => deduplicateTransactions([...prev, ...processed]))
\* of the deduplicating Home page
handleFilesParsedDedup(prev, processed) == deduplicateTransactions(prev \o processed)

\* the transactions of the handleFilesParsed runs that await the oracle
RECURSIVE Awaited(_)
Awaited(cs) == IF cs = <<>> THEN 0 ELSE Len(Head(cs)) + Awaited(Tail(cs))

InitStore ==
    /\ StoreIdle
    /\ input = <<>>
    /\ output = <<>>
    /\ phase = "store"

PureUnchanged == UNCHANGED <<input, output, phase>>

\* the user saves or clears the API key (setAIKey)
SetAIKey ==
    /\ aiKey' = ~aiKey
    /\ UNCHANGED <<transactions, clock, calls>>
    /\ PureUnchanged

\* time passes: Date.now() returns a later value
Tick ==
    /\ clock < MaxClock
    /\ clock' = clock + 1
    /\ UNCHANGED <<transactions, aiKey, calls>>
    /\ PureUnchanged

\* processFiles(files) up to onFilesParsed(allTransactions), and
\* handleFilesParsed up to its await: with AI enabled the batch awaits
\* aiCategorize, without it the batch is stored at once. dedup tells which
\* Home page stores it.
UploadTo(dedup) ==
    \E files \in SeqsUpTo(StoreFiles, MaxFiles) :
    \E replies \in [DOMAIN files -> StoreCategorizeReplies] :
    \E allTransactions \in {ProcessFiles(files, 1, aiKey, replies, clock)} :
        /\ allTransactions # <<>>
        /\ Len(transactions) + Awaited(calls) + Len(allTransactions) <= MaxStored
        /\ IF aiKey
           THEN /\ Len(calls) < MaxCalls
                /\ calls' = Append(calls, allTransactions)
                /\ UNCHANGED transactions
           ELSE /\ transactions' = (IF dedup THEN handleFilesParsedDedup(transactions, allTransactions)
                                    ELSE handleFilesParsed(transactions, allTransactions))
                /\ UNCHANGED calls
        /\ UNCHANGED <<aiKey, clock>>
        /\ PureUnchanged

\* the oracle answers (or fails) an awaited aiCategorize of handleFilesParsed;
\* the batch is stored
FinishCategorizeTo(dedup) ==
    \E i \in DOMAIN calls :
    \E reply \in StoreCategorizeReplies :
    \E processed \in {aiCategorize(calls[i], TRUE, reply)} :
        /\ transactions' = (IF dedup THEN handleFilesParsedDedup(transactions, processed)
                            ELSE handleFilesParsed(transactions, processed))
        /\ calls' = Remove(calls, i, i)
        /\ UNCHANGED <<aiKey, clock>>
        /\ PureUnchanged

\* handleRemoveFile(fileName)
HandleRemoveFile ==
    \E fileName \in StoreFileNames :
        /\ transactions' = SelectSeq(transactions, LAMBDA t : t.sourceFile # fileName)
        /\ UNCHANGED <<aiKey, clock, calls>>
        /\ PureUnchanged

\* handleReset()
HandleReset ==
    /\ transactions' = <<>>
    /\ UNCHANGED <<aiKey, clock, calls>>
    /\ PureUnchanged

Upload == UploadTo(FALSE)
FinishCategorize == FinishCategorizeTo(FALSE)

Next == SetAIKey \/ Tick \/ Upload \/ FinishCategorize \/ HandleRemoveFile \/ HandleReset

\* the Home page of page.tsx
Spec == InitStore /\ [][Next]_vars

UploadDedup == UploadTo(TRUE)
FinishCategorizeDedup == FinishCategorizeTo(TRUE)

NextDedup == SetAIKey \/ Tick \/ UploadDedup \/ FinishCategorizeDedup \/ HandleRemoveFile \/ HandleReset

\* the deduplicating Home page
SpecDedup == InitStore /\ [][NextDedup]_vars

\* C3: after any uploads, removals and resets the stored list holds no two
\* transactions with the same key (date, lowercased-trimmed description,
\* amount): two uploads with a row of the same key leave one transaction.
C3_StoredKeysDistinct ==
    \A i, j \in DOMAIN transactions :
        i # j => KeyText(transactions[i]) # KeyText(transactions[j])

\* C4: every stored transaction passes the validity filter, whichever path
\* (CSV, PDF, image) it was uploaded through: no failure keyword in its
\* description and no positive amount.
C4_StoredAreValid ==
    \A i \in DOMAIN transactions : isValidTransaction(transactions[i])

----------------------------------------------------------------------------
(* extractTransactionsFromPDFText on one line of a statement               *)

\* date tokens of the four patterns of extractDate, all of 7 February 2026
LineDates ==
    { <<"0","2","/","0","7","/","2","0","2","6">>, <<"F","e","b"," ","0","7",","," ","2","0","2","6">>, <<"0","7"," ","F","e","b"," ","2","0","2","6">>, <<"2","0","2","6","-","0","2","-","0","7">> }

\* descriptions as statements print them
LineDescriptions ==
    { <<"N","e","t","f","l","i","x"," ","S","u","b","s","c","r","i","p","t","i","o","n">>, <<"U","b","e","r"," ","T","r","i","p">>, <<"G","a","s"," ","B","i","l","l">>, <<"P","a","y","m","e","n","t"," ","F","a","i","l","e","d">>,
      <<"x">>, <<"C","a","r","d"," ","N","u","m","b","e","r">>, <<"O","r","d","e","r"," ","1","2",".","5","0">>, <<"P","a","y","c","h","e","c","k">> }

\* amount tokens: the text, the sign written and the hundredths written
LineAmounts ==
    { [text |-> <<"-","1","5",".","9","9">>,     sign |-> "-", cents |-> 1599],
      [text |-> <<"1","5",".","9","9">>,      sign |-> "",  cents |-> 1599],
      [text |-> <<"+","1","5",".","9","9">>,     sign |-> "+", cents |-> 1599],
      [text |-> <<"-","$","1",",","2","5","0",".","0","0">>, sign |-> "-", cents |-> 125000],
      [text |-> <<"-"," ","5",".","0","0">>,     sign |-> "-", cents |-> 500],
      [text |-> <<"1","5">>,         sign |-> "",  cents |-> 1500] }

\* the line of a statement: date, description, amount
LineText(l) == l.date \o <<" ">> \o l.description \o <<" ">> \o l.amount.text

InitLine ==
    /\ StoreIdle
    /\ input \in [date : LineDates, description : LineDescriptions, amount : LineAmounts]
    /\ output = <<>>
    /\ phase = "idle"

\* extractTransactionsFromPDFText(fullText, file.name), the text one line
CallExtractLine ==
    /\ phase = "idle"
    /\ output' = extractTransactionsFromPDFText(LineText(input), "b.pdf", clock)
    /\ phase' = "line"
    /\ UNCHANGED input
    /\ StoreUnchanged

SpecLine == InitLine /\ [][CallExtractLine]_vars

\* C11: a line made of a recognized date, a description of two characters
\* or more and an explicitly negative two-decimal amount yields exactly one
\* transaction, with that negative amount and the keyword category of the
\* description.
C11_NegativeLineEmitsOne ==
    (phase = "line" /\ Len(input.description) >= 2 /\ input.amount.sign = "-")
        => /\ Len(output) = 1
           /\ output[1].amount = Num(-input.amount.cents)
           /\ output[1].category = categorizeTransaction(input.description)

\* C12: the amount stored from a line is negative unless a '+' sign was
\* written: -|amount| for an unsigned token, the value itself for a negative
\* token, +|amount| for a token written with '+'.
C12_SignConvention ==
    (phase = "line" /\ output # <<>>)
        => output[1].amount = Num(IF input.amount.sign = "+" THEN input.amount.cents
                                  ELSE -input.amount.cents)

\* the description holds a failure keyword of the validity filter
HasFailedKeyword(description) ==
    \E k \in DOMAIN FAILED_KEYWORDS : Includes(ToLowerCase(description), FAILED_KEYWORDS[k])

\* a line whose description the extractor keeps whole: the line matches no
\* skip pattern, the description holds no failure keyword and no amount token
PlainLine ==
    /\ ~shouldSkipLine(LineText(input))
    /\ ~HasFailedKeyword(input.description)
    /\ ~AmountMatch(input.description).ok

\* C11 (amended): a line made of a recognized date, a description of two
\* characters or more and an explicitly negative two-decimal amount yields
\* exactly one transaction, with that negative amount and the keyword
\* category of the description, provided the line matches no skip pattern
\* and the description holds no failure keyword and no amount token.
C11_PlainNegativeLineEmitsOne ==
    (phase = "line" /\ Len(input.description) >= 2 /\ input.amount.sign = "-" /\ PlainLine)
        => /\ Len(output) = 1
           /\ output[1].amount = Num(-input.amount.cents)
           /\ output[1].category = categorizeTransaction(input.description)

\* "02/07/2026 Netflix Subscription -15.99" was read: -15.99, Entertainment
C11_Witness ==
    /\ phase = "line"
    /\ LineText(input) = <<"0","2","/","0","7","/","2","0","2","6"," ","N","e","t","f","l","i","x"," ","S","u","b","s","c","r","i","p","t","i","o","n"," ","-","1","5",".","9","9">>
    /\ Len(output) = 1
    /\ output[1].amount = Num(-1599)
    /\ output[1].category = "Entertainment"

\* the trimmed line matches one of the skip patterns
MatchesSkipPattern(rawLine) ==
    \E k \in DOMAIN SKIP_PATTERNS : PatternTest(SKIP_PATTERNS[k], Trim(rawLine))

\* the lines of a text that match no skip pattern, in order
KeptLines(lines) == SelectSeq(lines, LAMBDA l : ~MatchesSkipPattern(l))

\* transactions without the line index and the time their ids carry
WithoutIds(ts) == [k \in DOMAIN ts |-> [ts[k] EXCEPT !.id = <<>>]]

\* C13: no emitted transaction comes from a line that matches a skip
\* pattern, and a text with skipped lines yields the same transactions, in
\* the same order, as the text without them.
C13_SkippedLinesEmitNothing ==
    phase = "pdf"
        => /\ \A k \in DOMAIN output :
                ~MatchesSkipPattern(SplitLines(input.pdfText)[output[k].id[2] + 1])
           /\ (\E k \in DOMAIN SplitLines(input.pdfText) :
                    MatchesSkipPattern(SplitLines(input.pdfText)[k]))
                => WithoutIds(output)
                     = WithoutIds(extractTransactionsFromPDFText(
                           JoinLines(KeptLines(SplitLines(input.pdfText))), input.name, clock))

\* a text of a transaction line and a skipped line with a date and an
\* amount was read: one transaction, from the first line
C13_Witness ==
    /\ phase = "pdf"
    /\ input.pdfText = <<"0","2","/","0","7","/","2","0","2","6"," ","N","e","t","f","l","i","x"," ","S","u","b","s","c","r","i","p","t","i","o","n"," ","-","1","5",".","9","9">> \o <<"\n">> \o <<"C","a","r","d"," ","N","u","m","b","e","r"," ","0","2","/","0","7","/","2","0","2","6"," ","5",".","0","0">>
    /\ Len(output) = 1
    /\ output[1].id[2] = 0

\* the cell of row i under the first key holding one of the words
CellUnder(csv, i, words) == Cell(csv.rows[i], FindKey(csv.keys, words))

\* row i has an empty debit cell and a credit cell that reads as c > 0
IsCreditRow(csv, i) ==
    /\ CellUnder(csv, i, DebitWords) = <<>>
    /\ GtZero(ParseFloat(StripChars(CellUnder(csv, i, CreditWords), {"$", ","})))

\* C14: of a file with a debit and a credit column, each row with an empty
\* debit and a credit c > 0 is emitted as one transaction of amount +c; the
\* Paycheck row is emitted with category Income.
C14_CreditRowEmitted ==
    (/\ phase = "csv"
     /\ FindKey(input.csv.keys, DebitWords) # 0
     /\ FindKey(input.csv.keys, CreditWords) # 0)
        => \A i \in DOMAIN input.csv.rows :
              IsCreditRow(input.csv, i)
                  => /\ Cardinality({k \in DOMAIN output : output[k].id[2] = i - 1}) = 1
                     /\ \A k \in DOMAIN output :
                           output[k].id[2] = i - 1
                               => /\ output[k].amount
                                        = ParseFloat(StripChars(CellUnder(input.csv, i, CreditWords), {"$", ","}))
                                  /\ (output[k].description = <<"P","a","y","c","h","e","c","k">> => output[k].category = "Income")

----------------------------------------------------------------------------
(* categorizeTransaction on its own                                        *)

MaxWords == 2         \* most words of a description

\* words of a description: keywords of ten categories, a keyword listed
\* under two categories, a keyword that holds another one, and no keyword
DescriptionWords ==
    { <<"P","i","z","z","a">>, <<"A","m","a","z","o","n">>, <<"U","b","e","r">>, <<"E","l","e","c","t","r","i","c">>, <<"N","e","t","f","l","i","x">>, <<"X","b","o","x">>, <<"C","a","n","v","a">>,
      <<"H","o","t","e","l">>, <<"V","e","n","m","o">>, <<"S","a","l","a","r","y">>,
      <<"g","a","s">>, <<"G","A","S">>, <<"U","b","e","r","E","a","t","s">>, <<"P","a","y","c","h","e","c","k">>, <<"Q","w","x">> }

RECURSIVE JoinWords(_)
JoinWords(words) ==
    IF words = <<>> THEN <<>>
    ELSE IF Len(words) = 1 THEN words[1]
    ELSE words[1] \o <<" ">> \o JoinWords(Tail(words))

InitCategorize ==
    /\ StoreIdle
    /\ input \in { JoinWords(words) : words \in SeqsUpTo(DescriptionWords, MaxWords) }
    /\ output = <<>>
    /\ phase = "idle"

\* categorizeTransaction(description)
CallCategorize ==
    /\ phase = "idle"
    /\ output' = <<categorizeTransaction(input)>>
    /\ phase' = "keyword"
    /\ UNCHANGED input
    /\ StoreUnchanged

SpecCategorize == InitCategorize /\ [][CallCategorize]_vars

\* a keyword of the i-th declared category is a substring of the lowercased
\* description
CategoryMatches(i, description) ==
    \E k \in DOMAIN CATEGORY_KEYWORDS[i].keywords :
        Includes(ToLowerCase(description), CATEGORY_KEYWORDS[i].keywords[k])

\* C15: categorizeTransaction returns the first category, in declaration
\* order, one of whose keywords is a substring of the lowercased description,
\* and Other when no category has one; a description holding 'gas' never
\* resolves to Bills & Utilities, which lists 'gas' after Transportation does.
C15_FirstMatchWins ==
    phase = "keyword"
        => /\ \A i \in DOMAIN CATEGORY_KEYWORDS :
                (CategoryMatches(i, input) /\ \A j \in 1..(i - 1) : ~CategoryMatches(j, input))
                    => output = <<CATEGORY_KEYWORDS[i].category>>
           /\ (\A i \in DOMAIN CATEGORY_KEYWORDS : ~CategoryMatches(i, input))
                    => output = <<"Other">>
           /\ Includes(ToLowerCase(input), <<"g","a","s">>)
                    => output[1] \in {"Food & Dining", "Shopping", "Transportation"}

\* "Electric gas" holds keywords of Transportation and of Bills & Utilities
\* and resolved to Transportation
C15_Witness ==
    /\ phase = "keyword"
    /\ input = <<"E","l","e","c","t","r","i","c"," ","g","a","s">>
    /\ CategoryMatches(3, input) /\ CategoryMatches(4, input)
    /\ output = <<"Transportation">>

----------------------------------------------------------------------------
(* aiCategorize on a batch of extracted transactions                       *)

MaxBatch == 3         \* most transactions of a batch handed to aiCategorize

\* statement lines that each yield one transaction
BatchLines ==
    { <<"0","2","/","0","7","/","2","0","2","6"," ","N","e","t","f","l","i","x"," ","S","u","b","s","c","r","i","p","t","i","o","n"," ","-","1","5",".","9","9">>,
      <<"F","e","b"," ","0","8",","," ","2","0","2","6"," ","U","b","e","r"," ","T","r","i","p"," ","1",",","2","5","0",".","0","0"," ","P","K","R">>,
      <<"0","2","/","0","9","/","2","0","2","6"," ","C","o","r","n","e","r"," ","K","i","o","s","k"," ","-","5",".","0","0">> }

\* what the extractor hands to aiCategorize: no transaction, or one per line
\* of a text of at most n lines
Batches(n) ==
    {<<>>} \cup { extractTransactionsFromPDFText(JoinLines(lines), "b.pdf", 0) :
                    lines \in SeqsUpTo(BatchLines, n) }

InitBatch ==
    /\ StoreIdle
    /\ input \in [transactions : Batches(MaxBatch), reply : CategorizeReplies, enabled : BOOLEAN]
    /\ output = <<>>
    /\ phase = "idle"

\* aiCategorize(transactions)
CallCategorizeBatch ==
    /\ phase = "idle"
    /\ output' = aiCategorize(input.transactions, input.enabled, input.reply)
    /\ phase' = "aiCategorize"
    /\ UNCHANGED input
    /\ StoreUnchanged

SpecBatch == InitBatch /\ [][CallCategorizeBatch]_vars

\* C16: when the oracle call throws, aiCategorize returns the transactions
\* it was given, each with the category it had before the call.
C16_OracleFailureKeepsCategories ==
    (phase = "aiCategorize" /\ input.reply.threw)
        => /\ Len(output) = Len(input.transactions)
           /\ \A i \in DOMAIN output : output[i].category = input.transactions[i].category
           /\ output = input.transactions

\* the oracle call threw on a batch of keyword-categorized transactions,
\* with AI enabled, and the batch came back as it was
C16_Witness ==
    /\ phase = "aiCategorize"
    /\ input.enabled
    /\ input.reply = Failed
    /\ Len(input.transactions) = 2
    /\ output = input.transactions
    /\ output[1].category = "Entertainment"

\* the array the reply holds, as response.match and JSON.parse read it:
\* <<the entries>>, or <<>> when the reply holds no array that parses
ReplyArray(reply) ==
    IF reply.threw THEN <<>>
    ELSE IF ~GreedyArrayMatch(reply.tokens).ok THEN <<>>
    ELSE IF JsonParse(GreedyArrayMatch(reply.tokens).text).threw THEN <<>>
    ELSE <<JsonParse(GreedyArrayMatch(reply.tokens).text).value.v>>

\* the i-th entry of the array is a label of DEFAULT_CATEGORIES
RecognizedAt(array, i) ==
    /\ i \in DOMAIN array
    /\ "t" \in DOMAIN array[i] /\ array[i].t = "string"
    /\ \E k \in DOMAIN DEFAULT_CATEGORIES : DEFAULT_CATEGORIES[k] = array[i].v

\* C17: aiCategorize returns as many transactions as it was given, in the
\* same order, element i differing from the input's at most in category; a
\* category is replaced only by the reply's i-th entry, when that is a label
\* of DEFAULT_CATEGORIES; a reply without an array that parses, an array of a
\* different length, or an unrecognized entry leaves the category in place.
C17_OnlyRecognizedLabelsReplace ==
    phase = "aiCategorize"
        => /\ Len(output) = Len(input.transactions)
           /\ \A i \in DOMAIN output :
                /\ [output[i] EXCEPT !.category = input.transactions[i].category] = input.transactions[i]
                /\ output[i].category # input.transactions[i].category
                     => /\ ReplyArray(input.reply) # <<>>
                        /\ RecognizedAt(ReplyArray(input.reply)[1], i)
                        /\ output[i].category = ReplyArray(input.reply)[1][i].v
           /\ ReplyArray(input.reply) = <<>> => output = input.transactions
           /\ (ReplyArray(input.reply) # <<>>
                  /\ Len(ReplyArray(input.reply)[1]) # Len(input.transactions))
                => output = input.transactions
           /\ \A i \in DOMAIN output :
                (ReplyArray(input.reply) # <<>> /\ ~RecognizedAt(ReplyArray(input.reply)[1], i))
                    => output[i] = input.transactions[i]

----------------------------------------------------------------------------
(* FileUploader.tsx: processFiles, one step per stretch between awaits     *)

\* a screenshot on which the call of the vision oracle fails
FailingScreenshot == [kind |-> "image", name |-> "e.png", reply |-> Failed]

\* the files dropped on the uploader: readable ones, and a CSV and a PDF
\* whose read is rejected
Uploads ==
    { [file |-> f, readable |-> TRUE] : f \in StoreFiles \cup {FailingScreenshot} }
    \cup { [file |-> f, readable |-> FALSE] : f \in {g \in StoreFiles : g.kind # "image"} }

\* what the extractor of a dropped file returns
ExtractedOf(f, now) == IF f \in StoreFiles THEN Extracted[f][now] ELSE Extract(f, now)

\* the messages of setError, with the file names they show
ErrorParsing(name) == [t |-> "string", message |-> "Error parsing", names |-> {name}]
NoTransactionsFound(name) == [t |-> "string", message |-> "No transactions found in", names |-> {name}]
EnableAI == [t |-> "string", message |-> "Enable AI to extract transactions from screenshots.", names |-> {}]

\* faulty variant: the first failure ends the loop
AfterCatch_Aborts(i, n) == n + 1

\* the catch block sits inside the loop: the next file follows
AfterCatch(i, n) == i + 1

\* catch (err): setError(`Error parsing ${file.name}: ...`)
Caught(o, name, n) ==
    [o EXCEPT !.processingFile = Str(name), !.error = ErrorParsing(name),
              !.pending = <<>>, !.i = AfterCatch(o.i, n)]

\* allTransactions.push(...transactions), and on to the next file
PushedAll(o, name, ts) ==
    [o EXCEPT !.processingFile = Str(name), !.allTransactions = @ \o ts,
              !.pending = <<>>, !.i = @ + 1]

InitUploader ==
    /\ transactions = <<>> /\ clock = 0 /\ calls = <<>>
    /\ aiKey \in BOOLEAN
    /\ input \in SeqsUpTo(Uploads, MaxFiles)
    /\ output = <<>>
    /\ phase = "idle"

\* processFiles(filesToProcess): setProcessing(true), setError(null)
StartProcessFiles ==
    /\ phase = "idle"
    /\ output' = [processing |-> TRUE, error |-> Null, processingFile |-> Null,
                  files |-> <<>>, allTransactions |-> <<>>, pending |-> <<>>, i |-> 1]
    /\ phase' = "loop"
    /\ UNCHANGED input
    /\ StoreUnchanged

\* the body of the loop for the next file, up to its await of an oracle or
\* to its end
ProcessNextFile ==
    /\ phase = "loop"
    /\ output.i <= Len(input)
    /\ \E e \in {input[output.i]} :
          IF e.file.kind = "image" /\ ~aiKey
          THEN /\ output' = [output EXCEPT !.processingFile = Str(e.file.name), !.error = EnableAI, !.i = @ + 1]
               /\ phase' = "loop"
          ELSE IF ~e.readable
          THEN /\ output' = Caught(output, e.file.name, Len(input))
               /\ phase' = "loop"
          ELSE IF e.file.kind = "image"
          THEN /\ output' = [output EXCEPT !.processingFile = Str(e.file.name)]
               /\ phase' = "awaitVision"
          ELSE \E ts \in {ExtractedOf(e.file, clock).value} :
                  IF aiKey /\ ts # <<>>
                  THEN /\ output' = [output EXCEPT !.processingFile = Str(e.file.name), !.pending = ts]
                       /\ phase' = "awaitCategorize"
                  ELSE /\ output' = PushedAll(output, e.file.name, ts)
                       /\ phase' = "loop"
    /\ UNCHANGED input
    /\ StoreUnchanged

\* the vision oracle answers the awaited aiExtractFromImage
VisionResponds ==
    /\ phase = "awaitVision"
    /\ \E e \in {input[output.i]} :
       \E r \in {aiExtractFromImage(aiKey, e.file.reply, e.file.name, clock)} :
          IF r.threw
          THEN output' = Caught(output, e.file.name, Len(input))
          ELSE IF r.value = <<>>
          THEN output' = [PushedAll(output, e.file.name, <<>>) EXCEPT !.error = NoTransactionsFound(e.file.name)]
          ELSE output' = PushedAll(output, e.file.name, r.value)
    /\ phase' = "loop"
    /\ UNCHANGED input
    /\ StoreUnchanged

\* the categorizing oracle answers the awaited aiCategorize of processFiles
CategorizeResponds ==
    /\ phase = "awaitCategorize"
    /\ \E reply \in StoreCategorizeReplies :
          output' = PushedAll(output, input[output.i].file.name, aiCategorize(output.pending, aiKey, reply))
    /\ phase' = "loop"
    /\ UNCHANGED input
    /\ StoreUnchanged

\* after the loop: onFilesParsed(allTransactions), which is handleFilesParsed
\* up to its await, then setFiles, setProcessing(false), setProcessingFile(null)
EndProcessFiles ==
    /\ phase = "loop"
    /\ output.i > Len(input)
    /\ IF output.allTransactions = <<>> THEN UNCHANGED <<transactions, calls>>
       ELSE IF aiKey
       THEN calls' = Append(calls, output.allTransactions) /\ UNCHANGED transactions
       ELSE /\ transactions' = handleFilesParsed(transactions, output.allTransactions)
            /\ UNCHANGED calls
    /\ output' = [output EXCEPT !.processing = FALSE, !.processingFile = Null,
                                !.files = [k \in DOMAIN input |-> input[k].file.name]]
    /\ phase' = "done"
    /\ UNCHANGED <<input, aiKey, clock>>

ProgramSteps == StartProcessFiles \/ ProcessNextFile \/ EndProcessFiles

NextUploader ==
    \/ StartProcessFiles \/ ProcessNextFile \/ EndProcessFiles
    \/ VisionResponds \/ CategorizeResponds \/ FinishCategorize

SpecUploader == InitUploader /\ [][NextUploader]_vars

\* The event loop runs every continuation that is ready; nothing makes the
\* oracle answer a request.
SpecUploaderFair == SpecUploader /\ WF_vars(ProgramSteps)

\* what a dropped file contributes to the batch
Contribution(e, enabled, now) ==
    IF ~e.readable THEN <<>>
    ELSE IF e.file.kind = "image" /\ ~enabled THEN <<>>
    ELSE IF ExtractedOf(e.file, now).threw THEN <<>>
    ELSE ExtractedOf(e.file, now).value

RECURSIVE Contributions(_, _, _, _)
Contributions(es, k, enabled, now) ==
    IF k > Len(es) THEN <<>>
    ELSE Contribution(es[k], enabled, now) \o Contributions(es, k + 1, enabled, now)

\* transactions without their categories
WithoutCategories(ts) == [k \in DOMAIN ts |-> [ts[k] EXCEPT !.category = "Other"]]

\* C18: once processFiles has started, the processing flag is eventually
\* cleared and the transactions of the batch are eventually stored, whether
\* or not the oracle ever answers.
C18_OracleNeverBlocks ==
    (phase = "loop")
        ~> (/\ phase = "done"
            /\ ~output.processing
            /\ WithoutCategories(transactions)
                   = WithoutCategories(Contributions(input, 1, aiKey, clock)))

\* what onFilesParsed was called with: the batch handleFilesParsed awaits
\* the oracle for, or the batch it stored
Delivered == IF calls # <<>> THEN calls[Len(calls)] ELSE transactions

\* C19: when processFiles has finished, onFilesParsed has received the
\* transactions of every file that was read and extracted, in the order of
\* the batch, and none of a file whose read or extraction failed, whichever
\* files of the batch failed.
C19_FailuresAreIsolated ==
    phase = "done"
        => WithoutCategories(Delivered)
               = WithoutCategories(Contributions(input, 1, aiKey, clock))

\* a batch whose first file could not be read and whose second file yielded
\* two transactions has finished: the two were passed on, the first file is
\* reported
C19_Witness ==
    /\ phase = "done"
    /\ Len(input) = 2
    /\ ~input[1].readable /\ input[1].file.name = "a.csv"
    /\ input[2].readable /\ input[2].file.name = "b.pdf"
    /\ Len(Delivered) = 2
    /\ \A k \in DOMAIN Delivered : Delivered[k].sourceFile = "b.pdf"
    /\ output.error = ErrorParsing("a.csv")

\* the read of the file was rejected or its extractor raised an error
FileFailed(e, enabled, now) ==
    \/ ~e.readable /\ ~(e.file.kind = "image" /\ ~enabled)
    \/ e.readable /\ e.file.kind = "image" /\ enabled /\ ExtractedOf(e.file, now).threw

\* C20: when processFiles has finished, the error shown names every file of
\* the batch whose read or extraction failed.
C20_EveryFailureNamed ==
    phase = "done"
        => \A k \in DOMAIN input :
              FileFailed(input[k], aiKey, clock)
                  => output.error.t # "null" /\ input[k].file.name \in output.error.names

\* the reply holds an array that response.match finds and JSON.parse reads
HoldsParsableArray(reply) ==
    /\ ~reply.threw
    /\ LazyArrayMatch(reply.tokens).ok
    /\ ~JsonParse(LazyArrayMatch(reply.tokens).text).threw

\* C21: when the call of the vision oracle itself succeeds, aiExtractFromImage
\* raises nothing, and a reply with no JSON array or a malformed one yields
\* zero transactions.
C21_MalformedReplyIsNotFatal ==
    (/\ input.kind = "image"
     /\ phase \in {"image", "imageError"}
     /\ aiKey
     /\ ~input.reply.threw)
        => /\ phase = "image"
           /\ ~HoldsParsableArray(input.reply) => output = <<>>

----------------------------------------------------------------------------
(* IEEE 754 binary64 values, as the amounts of a Transaction are           *)

\* A positive double is [e, m]: m holds the 53 bits of the significand, most
\* significant first (m[1] = 1), and the value lies in [2^e, 2^(e+1)).
\* Zero has an empty significand. Amounts are sums of positive doubles only
\* (Math.abs of an expense, or an income), so no sign is kept.
SignificandBits == 53

DoubleZero == [e |-> 0, m |-> <<>>]

Zeros(n) == [i \in 1..n |-> 0]

\* the w low bits of n, most significant first
BitsOf(n, w) == [i \in 1..w |-> (n \div 2^(w - i)) % 2]

\* the bits of n without leading zeros (n < 2^30)
NatBits(n) == BitsOf(n, Min({w \in 0..30 : n < 2^w}))

\* the number a string of at most 30 bits stands for
RECURSIVE BitsValue(_)
BitsValue(bits) ==
    LET Halves(low) ==
            BitsValue(SubSeq(bits, 1, Len(bits) - low)) * 2^low
                + BitsValue(SubSeq(bits, Len(bits) - low + 1, Len(bits)))
    IN  IF bits = <<>> THEN 0
        ELSE IF Len(bits) = 1 THEN bits[1]
        ELSE Halves(Len(bits) \div 2)

\* a + b + carry over bit strings of equal length, 15 bits a step from
\* the low end; the result is one bit longer when the sum carries out
RECURSIVE AddBits(_, _, _)
AddBits(a, b, carry) ==
    LET Step(w) ==
            LET Rest(s) ==
                    AddBits(SubSeq(a, 1, Len(a) - w), SubSeq(b, 1, Len(b) - w), s \div 2^w)
                        \o BitsOf(s % 2^w, w)
            IN  Rest(BitsValue(SubSeq(a, Len(a) - w + 1, Len(a)))
                     + BitsValue(SubSeq(b, Len(b) - w + 1, Len(b))) + carry)
    IN  IF a = <<>> THEN (IF carry = 1 THEN <<1>> ELSE <<>>)
        ELSE Step(IF Len(a) < 15 THEN Len(a) ELSE 15)

\* round to nearest, ties to even: all holds the bits of the exact value from
\* its leading 1, whose exponent is e, and sticky tells that the value has
\* further nonzero bits after them
RoundNearestEven(e, all, sticky) ==
    LET kept == SubSeq(all, 1, SignificandBits)
        Half == Len(all) > SignificandBits /\ all[SignificandBits + 1] = 1
        More == sticky \/ \E i \in (SignificandBits + 2)..Len(all) : all[i] = 1
        Carried(s) == IF Len(s) > SignificandBits
                      THEN [e |-> e + 1, m |-> SubSeq(s, 1, SignificandBits)]
                      ELSE [e |-> e, m |-> s]
    IN  IF Half /\ (More \/ kept[SignificandBits] = 1)
        THEN Carried(AddBits(kept, Zeros(SignificandBits), 1))
        ELSE [e |-> e, m |-> kept]

\* the first 80 bits of r / d (r < d), by long division, and
\* the remainder left
FractionBits(r, d) ==
    LET Digit(x) == BitsOf((x * 2^20) \div d, 20)
        Next1(x) == (x * 2^20) % d
        Four(r1, r2, r3) ==
            [bits |-> Digit(r) \o Digit(r1) \o Digit(r2) \o Digit(r3), r |-> Next1(r3)]
        Three(r1, r2) == Four(r1, r2, Next1(r2))
        Two(r1) == Three(r1, Next1(r1))
    IN  Two(Next1(r))

\* the double nearest to n / d (0 <= n < 2^30 * d, d <= 1000): what reading
\* a decimal literal or JSON number of n hundredths gives for d = 100
NearestDouble(n, d) ==
    LET From(int, frac) ==
            LET all   == int \o frac.bits
                first == Min({i \in DOMAIN all : all[i] = 1})
            IN  RoundNearestEven(Len(int) - first, SubSeq(all, first, Len(all)), frac.r > 0)
    IN  IF n = 0 THEN DoubleZero
        ELSE From(NatBits(n \div d), FractionBits(n % d, d))

\* a < b
DoubleLess(a, b) ==
    IF a.m = <<>> THEN b.m # <<>>
    ELSE IF b.m = <<>> THEN FALSE
    ELSE IF a.e # b.e THEN a.e < b.e
    ELSE \E i \in 1..SignificandBits :
            /\ a.m[i] < b.m[i]
            /\ \A j \in 1..(i - 1) : a.m[j] = b.m[j]

\* a + b of two doubles that are zero or positive
DoubleAdd(a, b) ==
    LET Summed(hi, n, s) == RoundNearestEven(hi.e + (Len(s) - n), s, FALSE)
        Aligned(hi, lo, d) ==
            Summed(hi, SignificandBits + d, AddBits(hi.m \o Zeros(d), Zeros(d) \o lo.m, 0))
    IN  IF a.m = <<>> THEN b
        ELSE IF b.m = <<>> THEN a
        ELSE IF a.e >= b.e THEN Aligned(a, b, a.e - b.e)
        ELSE Aligned(b, a, b.e - a.e)

----------------------------------------------------------------------------
(* parser.ts: calculateSummary, buildCurrencySummary                       *)

\* An object used as a dictionary is the sequence of its [key, value]
\* members in the order the keys were first assigned.

\* String.prototype.split(' '): the pieces between single spaces, empty
\* pieces included
RECURSIVE SplitSpaces(_)
SplitSpaces(s) ==
    LET sp == {i \in DOMAIN s : s[i] = " "}
    IN  IF sp = {} THEN <<s>>
        ELSE <<SubSeq(s, 1, Min(sp) - 1)>> \o SplitSpaces(SubSeq(s, Min(sp) + 1, Len(s)))

\* t.description.split(' ').slice(0, 3).join(' ')
MerchantName(description) ==
    LET Slice(tokens) == SubSeq(tokens, 1, IF Len(tokens) < 3 THEN Len(tokens) ELSE 3)
    IN  JoinWords(Slice(SplitSpaces(description)))

\* a property key that is an array index: own keys of this form are
\* enumerated first, in ascending numeric order
IsArrayIndex(key) ==
    /\ key # <<>>
    /\ Len(key) <= 9
    /\ \A i \in DOMAIN key : key[i] \in Range(Digits)
    /\ Len(key) = 1 \/ key[1] # "0"

\* Object.entries(obj)
ObjectEntries(obj) ==
    LET idx     == {i \in DOMAIN obj : IsArrayIndex(obj[i].key)}
        Rank(i) == 1 + Cardinality({j \in idx : DigitsValue(obj[j].key) < DigitsValue(obj[i].key)})
        indexed == [p \in 1..Cardinality(idx) |-> obj[CHOOSE i \in idx : Rank(i) = p]]
    IN  indexed \o SelectSeq(obj, LAMBDA member : ~IsArrayIndex(member.key))

\* obj[key] = (obj[key] || 0) + x
Accumulate(obj, key, x) ==
    IF \E i \in DOMAIN obj : obj[i].key = key
    THEN [i \in DOMAIN obj |->
            IF obj[i].key = key
            THEN [key |-> key, value |-> DoubleAdd(obj[i].value, x)]
            ELSE obj[i]]
    ELSE Append(obj, [key |-> key, value |-> DoubleAdd(DoubleZero, x)])

\* forEach over [key, x] pairs, accumulating into an empty object
RECURSIVE SumByKey(_)
SumByKey(pairs) ==
    IF pairs = <<>> THEN <<>>
    ELSE Accumulate(SumByKey(SubSeq(pairs, 1, Len(pairs) - 1)),
                    pairs[Len(pairs)].key, pairs[Len(pairs)].x)

\* reduce((sum, x) => sum + x, 0)
RECURSIVE SumDoubles(_)
SumDoubles(xs) ==
    IF xs = <<>> THEN DoubleZero
    ELSE DoubleAdd(SumDoubles(SubSeq(xs, 1, Len(xs) - 1)), xs[Len(xs)])

IsExpense(t) == LtZero(t.amount)
IsIncome(t)  == GtZero(t.amount)

\* Math.abs(t.amount) of an amount of c hundredths
AbsAmount(t) == NearestDouble(Abs(t.amount.v), 100)

\* sort((a, b) => b.total - a.total): stable, descending by total
RECURSIVE SortByTotal(_)
SortByTotal(ms) ==
    LET Insert(sorted, m) ==
            LET k == Cardinality({i \in DOMAIN sorted : ~DoubleLess(sorted[i].total, m.total)})
            IN  SubSeq(sorted, 1, k) \o <<m>> \o SubSeq(sorted, k + 1, Len(sorted))
    IN  IF ms = <<>> THEN <<>>
        ELSE Insert(SortByTotal(SubSeq(ms, 1, Len(ms) - 1)), ms[Len(ms)])

TopCount == 10     \* slice(0, 10)

buildCurrencySummary(txns) ==
    LET spent  == SelectSeq(txns, IsExpense)
        earned == SelectSeq(txns, IsIncome)
        Spending(KeyOf(_)) ==
            SumByKey([i \in DOMAIN spent |-> [key |-> KeyOf(spent[i]), x |-> AbsAmount(spent[i])]])
        Named(entries) == [i \in DOMAIN entries |-> [name |-> entries[i].key, total |-> entries[i].value]]
        Top(sorted)    == SubSeq(sorted, 1, IF Len(sorted) < TopCount THEN Len(sorted) ELSE TopCount)
    IN  [totalSpent        |-> SumDoubles([i \in DOMAIN spent |-> AbsAmount(spent[i])]),
         totalIncome       |-> SumDoubles([i \in DOMAIN earned |-> AbsAmount(earned[i])]),
         categoryBreakdown |-> Spending(LAMBDA t : t.category),
         monthlySpending   |-> Spending(LAMBDA t : Substring0(t.date.v, 7)),
         topMerchants      |->
             Top(SortByTotal(Named(ObjectEntries(Spending(LAMBDA t : MerchantName(t.description))))))]

RECURSIVE GroupByCurrency(_)

\* faulty variant: every transaction joins the group of the first one
GroupByCurrency_OneGroup(ts) ==
    IF ts = <<>> THEN <<>> ELSE <<[key |-> ts[1].currency, value |-> ts]>>

\* byCurrency after the forEach of calculateSummary
GroupByCurrency(ts) ==
    LET Push(byCurrency, t) ==
            IF \E i \in DOMAIN byCurrency : byCurrency[i].key = t.currency
            THEN [i \in DOMAIN byCurrency |->
                    IF byCurrency[i].key = t.currency
                    THEN [key |-> t.currency, value |-> Append(byCurrency[i].value, t)]
                    ELSE byCurrency[i]]
            ELSE Append(byCurrency, [key |-> t.currency, value |-> <<t>>])
    IN  IF ts = <<>> THEN <<>>
        ELSE Push(GroupByCurrency(SubSeq(ts, 1, Len(ts) - 1)), ts[Len(ts)])

\* Object.entries(byCurrency).sort((a, b) => b[1].length - a[1].length)[0]?.[0] || 'USD'
PrimaryCurrency(entries) ==
    LET Longest(i) == \A j \in DOMAIN entries : Len(entries[j].value) <= Len(entries[i].value)
        first      == Min({i \in DOMAIN entries : Longest(i)})
    IN  IF entries = <<>> \/ entries[first].key = <<>> THEN USD ELSE entries[first].key

calculateSummary(ts) ==
    LET Summary(currencies, primaryCurrency) ==
            LET Primary(found) ==
                    IF found = {} THEN buildCurrencySummary(<<>>)
                    ELSE currencies[CHOOSE i \in found : TRUE].value
                Legacy(primary) ==
                    [transactionCount  |-> Len(ts),
                     currencies        |-> currencies,
                     totalSpent        |-> primary.totalSpent,
                     totalIncome       |-> primary.totalIncome,
                     categoryBreakdown |-> primary.categoryBreakdown,
                     monthlySpending   |-> primary.monthlySpending,
                     topMerchants      |-> primary.topMerchants,
                     currency          |-> primaryCurrency]
            IN  Legacy(Primary({i \in DOMAIN currencies : currencies[i].key = primaryCurrency}))
        Summarized(byCurrency) ==
            Summary([i \in DOMAIN byCurrency |->
                        [key |-> byCurrency[i].key, value |-> buildCurrencySummary(byCurrency[i].value)]],
                    PrimaryCurrency(byCurrency))
    IN  Summarized(ObjectEntries(GroupByCurrency(ts)))

MaxSummary == 3      \* longest list handed to calculateSummary

StatementTxn(description, date, hundredths, currency, category) ==
    [id          |-> <<"a.pdf", 0, 0>>,
     date        |-> Str(date),
     description |-> description,
     amount      |-> Num(hundredths),
     currency    |-> currency,
     category    |-> category,
     sourceFile  |-> "a.pdf"]

\* the transactions a summarized list is made of: expenses of one merchant
\* on two days, small expenses in two categories, two merchants with the
\* same total, a merchant whose name is a number, a second currency, an
\* income and a zero amount
SummaryTransactions ==
    { StatementTxn(<<"P","i","z","z","a"," ","H","u","t">>,          <<"2","0","2","6","-","0","1","-","0","5">>, -1000,  USD, "Food & Dining"),
      StatementTxn(<<"P","i","z","z","a"," ","H","u","t">>,          <<"2","0","2","6","-","0","1","-","0","6">>, -500,   USD, "Food & Dining"),
      StatementTxn(<<"U","b","e","r">>,               <<"2","0","2","6","-","0","2","-","0","1">>, -10,    USD, "Transportation"),
      StatementTxn(<<"U","b","e","r"," ","E","a","t","s"," ","O","r","d","e","r"," ","1","8">>, <<"2","0","2","6","-","0","2","-","0","2">>, -20,    USD, "Food & Dining"),
      StatementTxn(<<"U","b","e","r"," ","E","a","t","s"," ","O","r","d","e","r"," ","1","7">>, <<"2","0","2","6","-","0","2","-","0","3">>, -30,    USD, "Food & Dining"),
      StatementTxn(<<"4","2">>,                 <<"2","0","2","6","-","0","1","-","0","7">>, -500,   USD, "Other"),
      StatementTxn(<<"B","a","z","a","a","r">>,             <<"2","0","2","6","-","0","1","-","0","8">>, -500,   PKR, "Shopping"),
      StatementTxn(<<"P","a","y","c","h","e","c","k">>,           <<"2","0","2","6","-","0","1","-","3","1">>, 250000, USD, "Income"),
      StatementTxn(<<"R","e","f","u","n","d">>,             <<"2","0","2","6","-","0","1","-","0","9">>, 0,      USD, "Other") }

InitSummary ==
    /\ StoreIdle
    /\ input \in SeqsUpTo(SummaryTransactions, MaxSummary)
    /\ output = <<>>
    /\ phase = "idle"

\* calculateSummary(transactions)
CallCalculateSummary ==
    /\ phase = "idle"
    /\ output' = calculateSummary(input)
    /\ phase' = "summary"
    /\ UNCHANGED input
    /\ StoreUnchanged

SpecSummary == InitSummary /\ [][CallCalculateSummary]_vars

\* the sum, in list order, of |amount| over the transactions of input in
\* currency cur that satisfy Counted
SumOver(cur, Counted(_)) ==
    LET chosen == SelectSeq(input, LAMBDA t : t.currency = cur /\ Counted(t))
    IN  SumDoubles([k \in DOMAIN chosen |-> NearestDouble(Abs(chosen[k].amount.v), 100)])

Negative(t) == t.amount.v < 0
Positive(t) == t.amount.v > 0

\* C22: calculateSummary holds one summary per currency of the list; in it
\* totalSpent is the sum of |amount| over the transactions of that currency
\* with amount < 0, totalIncome the sum of amount over those with amount > 0,
\* and categoryBreakdown has one member per category of its expenses, the sum
\* of |amount| over them; no other currency contributes. Two USD expenses of
\* 10 and 5 in one category give 15 for the category and for totalSpent.
C22_SummaryPerCurrency ==
    phase = "summary"
        => /\ {output.currencies[i].key : i \in DOMAIN output.currencies}
                  = {input[k].currency : k \in DOMAIN input}
           /\ \A i, j \in DOMAIN output.currencies :
                  output.currencies[i].key = output.currencies[j].key => i = j
           /\ \A i \in DOMAIN output.currencies :
                  \E cur \in {output.currencies[i].key}, s \in {output.currencies[i].value} :
                      /\ s.totalSpent = SumOver(cur, Negative)
                      /\ s.totalIncome = SumOver(cur, Positive)
                      /\ {s.categoryBreakdown[m].key : m \in DOMAIN s.categoryBreakdown}
                             = {input[k].category :
                                   k \in {n \in DOMAIN input : input[n].currency = cur /\ Negative(input[n])}}
                      /\ \A m, n \in DOMAIN s.categoryBreakdown :
                             s.categoryBreakdown[m].key = s.categoryBreakdown[n].key => m = n
                      /\ \A m \in DOMAIN s.categoryBreakdown :
                             s.categoryBreakdown[m].value
                                 = SumOver(cur, LAMBDA t : Negative(t) /\ t.category = s.categoryBreakdown[m].key)
           /\ (/\ Len(input) = 2
               /\ \A k \in 1..2 : input[k].currency = USD /\ input[k].category = "Food & Dining"
               /\ input[1].amount = Num(-1000)
               /\ input[2].amount = Num(-500))
                  => /\ output.currencies[1].value.totalSpent = NearestDouble(1500, 100)
                     /\ output.currencies[1].value.categoryBreakdown
                            = <<[key |-> "Food & Dining", value |-> NearestDouble(1500, 100)]>>

\* a list with two expenses of one category in one currency, an expense in
\* another currency, summarized
C22_Witness ==
    /\ phase = "summary"
    /\ Len(output.currencies) = 2
    /\ \E i \in DOMAIN output.currencies :
           /\ DoubleLess(DoubleZero, output.currencies[i].value.totalSpent)
           /\ \E k, n \in DOMAIN input :
                  /\ k < n
                  /\ input[k].currency = output.currencies[i].key
                  /\ input[n].currency = output.currencies[i].key
                  /\ input[k].category = input[n].category
                  /\ Negative(input[k]) /\ Negative(input[n])
    /\ \A i \in DOMAIN output.currencies : output.currencies[i].value.totalSpent # DoubleZero

----------------------------------------------------------------------------
(* The Home page with the state updates React has queued                   *)

\* transactions is the state of the last render, which event handlers
\* close over; output is the queue of updates passed to setTransactions and
\* not yet rendered; calls holds the batches whose aiCategorize is awaited.
\* input records which Home page is mounted and, for the properties below,
\* the batches in the order of their setTransactions calls, the list a
\* serial execution of the handlers would hold, and whether a removal or a
\* reset was asked for.
MaxUploads == 2      \* handleFilesParsed runs
MaxQueue == 2        \* updates queued between two renders

\* faulty variant: the new list is computed from the rendered state
AppendUpdate_FromRendered(rendered, processed) == [fn |-> "replace", value |-> rendered \o processed]

\* setTransactions(prev => ...) with the batch processed
AppendUpdate(rendered, processed) == [fn |-> "append", value |-> processed]

\* setTransactions(remaining), setTransactions([])
ReplaceUpdate(list) == [fn |-> "replace", value |-> list]

\* the state after React has run the queued updates in order
RECURSIVE ApplyUpdates(_, _, _)
ApplyUpdates(state, queue, dedup) ==
    LET Applied(u) ==
            IF u.fn = "replace" THEN u.value
            ELSE IF dedup THEN handleFilesParsedDedup(state, u.value)
            ELSE handleFilesParsed(state, u.value)
    IN  IF queue = <<>> THEN state
        ELSE ApplyUpdates(Applied(Head(queue)), Tail(queue), dedup)

\* the list held when each handler takes effect as it is called
SerialAppend(expected, processed, dedup) ==
    IF dedup THEN FirstPerKey(expected \o processed) ELSE expected \o processed

InitHome ==
    /\ StoreIdle
    /\ input \in [dedup : BOOLEAN, appended : {<<>>}, expected : {<<>>}, destroyed : {FALSE}]
    /\ output = <<>>
    /\ phase = "home"

HomeUnchanged == UNCHANGED <<clock, phase>>

\* the user saves or clears the API key
HomeSetAIKey ==
    /\ aiKey' = ~aiKey
    /\ UNCHANGED <<transactions, calls, input, output>>
    /\ HomeUnchanged

\* setTransactions(prev => ...) of handleFilesParsed
Enqueued(processed) ==
    /\ Len(output) < MaxQueue
    /\ output' = Append(output, AppendUpdate(transactions, processed))
    /\ input' = [input EXCEPT !.appended = Append(@, processed),
                              !.expected = SerialAppend(@, processed, input.dedup)]
    /\ UNCHANGED transactions

\* processFiles of one dropped file up to onFilesParsed(allTransactions),
\* and handleFilesParsed up to its await or, without a key, to its end
HomeUpload ==
    \E f \in StoreFiles :
    \E reply \in StoreCategorizeReplies :
    \E allTransactions \in {ProcessFiles(<<f>>, 1, aiKey, <<reply>>, clock)} :
        /\ allTransactions # <<>>
        /\ Len(input.appended) + Len(calls) < MaxUploads
        /\ IF aiKey
           THEN /\ calls' = Append(calls, allTransactions)
                /\ UNCHANGED <<transactions, input, output>>
           ELSE /\ Enqueued(allTransactions)
                /\ UNCHANGED calls
        /\ UNCHANGED aiKey
        /\ HomeUnchanged

\* an awaited aiCategorize settles, in any order; handleFilesParsed goes on
\* to its end
HomeFinishCategorize ==
    \E i \in DOMAIN calls :
    \E reply \in StoreCategorizeReplies :
        /\ Enqueued(aiCategorize(calls[i], TRUE, reply))
        /\ calls' = Remove(calls, i, i)
        /\ UNCHANGED aiKey
        /\ HomeUnchanged

\* handleRemoveFile(fileName), from the button of a file of the last render
HomeRemoveFile ==
    \E fileName \in {transactions[k].sourceFile : k \in DOMAIN transactions} :
        /\ Len(output) < MaxQueue
        /\ output' = Append(output,
               ReplaceUpdate(SelectSeq(transactions, LAMBDA t : t.sourceFile # fileName)))
        /\ input' = [input EXCEPT
               !.expected = SelectSeq(@, LAMBDA t : t.sourceFile # fileName),
               !.destroyed = TRUE]
        /\ UNCHANGED <<transactions, aiKey, calls>>
        /\ HomeUnchanged

\* handleReset(), from the button shown with a dashboard
HomeReset ==
    /\ transactions # <<>>
    /\ Len(output) < MaxQueue
    /\ output' = Append(output, ReplaceUpdate(<<>>))
    /\ input' = [input EXCEPT !.expected = <<>>, !.destroyed = TRUE]
    /\ UNCHANGED <<transactions, aiKey, calls>>
    /\ HomeUnchanged

\* React renders: the queued updates run in order on the rendered state
Render ==
    /\ output # <<>>
    /\ transactions' = ApplyUpdates(transactions, output, input.dedup)
    /\ output' = <<>>
    /\ UNCHANGED <<aiKey, calls, input>>
    /\ HomeUnchanged

NextHome ==
    \/ HomeSetAIKey
    \/ HomeUpload
    \/ HomeFinishCategorize
    \/ HomeRemoveFile
    \/ HomeReset
    \/ Render

SpecHome == InitHome /\ [][NextHome]_vars

\* the first n batches of a list of batches, joined
RECURSIVE Joined(_, _)
Joined(batches, n) == IF n = 0 THEN <<>> ELSE Joined(batches, n - 1) \o batches[n]

\* C23: as long as nothing is removed or reset, every render shows the
\* batches whose append it has run, each whole and in the order of their
\* setTransactions calls (one transaction per key on the deduplicating
\* page), whatever the order in which the awaited aiCategorize calls settle;
\* once no update is queued, that is every batch appended.
C23_AppendIsAtomic ==
    (phase = "home" /\ ~input.destroyed)
        => \E n \in {Len(input.appended) - Len(output)} :
              /\ n >= 0
              /\ transactions = (IF input.dedup THEN FirstPerKey(Joined(input.appended, n))
                                 ELSE Joined(input.appended, n))

\* two batches of different files were awaiting the oracle together, and
\* both are rendered
C23_Witness ==
    /\ phase = "home"
    /\ ~input.destroyed
    /\ aiKey
    /\ Len(input.appended) = 2
    /\ input.appended[1][1].sourceFile # input.appended[2][1].sourceFile
    /\ output = <<>>
    /\ calls = <<>>
    /\ Len(transactions) = Len(input.appended[1]) + Len(input.appended[2])

\* C24: once every queued update is rendered, the stored list is the one
\* obtained by appending each batch, removing exactly the transactions of
\* each removed file and emptying the list at each reset, in the order of
\* the calls: nothing else is lost, reordered or added.
C24_OnlyRemovalDestroys ==
    (phase = "home" /\ output = <<>>) => transactions = input.expected

\* C25: each transaction parseCSV emits carries the date read from the cell
\* of its row under the first header, in header order, that contains 'date'
\* or 'posted' (case-insensitively), wherever that header stands.
C25_DateFromDateColumn ==
    (phase = "csv" /\ FindKey(input.csv.keys, DateWords) # 0)
        => \A k \in DOMAIN output :
              output[k].date = Str(formatDate(CellUnder(input.csv, output[k].id[2] + 1, DateWords)))

\* a date column, a description column and a numeric amount are found for
\* row i
Resolved(csv, i) ==
    /\ FindKey(csv.keys, DateWords) # 0
    /\ FindKey(csv.keys, DescWords) # 0
    /\ IsNum(CsvAmount(csv.keys, csv.rows[i]))

\* C26: parseCSV emits nothing for a row for which no date column, no
\* description column or no amount is found, or whose amount is not a
\* number; the other rows of the file are processed all the same.
C26_UnresolvedRowDiscarded ==
    phase = "csv"
        => \A i \in DOMAIN input.csv.rows :
              ~Resolved(input.csv, i) => \A k \in DOMAIN output : output[k].id[2] # i - 1

----------------------------------------------------------------------------
(* pdf-parser.ts: parsePDF                                                 *)

\* A document is the sequence of its text items in reading order of the
\* file, each with the page it is on, transform[4] (x), transform[5] in
\* tenths (y) and its text.

NumPages == 2        \* pdf.numPages
MaxFragments == 3    \* most text items of a document

\* Math.round of a number of tenths: the nearest integer, halves upwards
MathRound(tenths) == (tenths + 5) \div 10

\* rows after the loop over the items of a page: the rounded y values in
\* the order they were first set, each with its items in push order
RECURSIVE GroupRows(_)
GroupRows(items) ==
    LET Push(rows, item, y) ==
            IF \E k \in DOMAIN rows : rows[k].y = y
            THEN [k \in DOMAIN rows |->
                    IF rows[k].y = y
                    THEN [y |-> y, items |-> Append(rows[k].items, [x |-> item.x, str |-> item.str])]
                    ELSE rows[k]]
            ELSE Append(rows, [y |-> y, items |-> <<[x |-> item.x, str |-> item.str]>>])
        Step(rows, item) ==
            IF Trim(item.str) = <<>> THEN rows ELSE Push(rows, item, MathRound(item.y))
    IN  IF items = <<>> THEN <<>>
        ELSE Step(GroupRows(SubSeq(items, 1, Len(items) - 1)), items[Len(items)])

\* faulty variant: rows bottom-to-top
SortedRows_Ascending(rows) ==
    [p \in DOMAIN rows |->
        rows[CHOOSE k \in DOMAIN rows :
                Cardinality({j \in DOMAIN rows : rows[j].y < rows[k].y}) = p - 1]]

\* [...rows.keys()].sort((a, b) => b - a), each key with its row
SortedRows(rows) ==
    [p \in DOMAIN rows |->
        rows[CHOOSE k \in DOMAIN rows :
                Cardinality({j \in DOMAIN rows : rows[j].y > rows[k].y}) = p - 1]]

\* items.sort((a, b) => a.x - b.x): stable, ascending x
SortedItems(items) ==
    [p \in DOMAIN items |->
        items[CHOOSE k \in DOMAIN items :
                Cardinality({j \in DOMAIN items :
                    items[j].x < items[k].x \/ (items[j].x = items[k].x /\ j < k)}) = p - 1]]

\* items.map(i => i.str).join(' ').trim()
RowLine(items) == Trim(JoinWords([k \in DOMAIN items |-> items[k].str]))

\* the lines pushed for one page
PageLines(items) ==
    LET Lines(rows) == [k \in DOMAIN rows |-> RowLine(SortedItems(rows[k].items))]
    IN  SelectSeq(Lines(SortedRows(GroupRows(items))), LAMBDA line : line # <<>>)

\* allLines after pages i..NumPages
RECURSIVE AllLines(_, _)
AllLines(doc, i) ==
    IF i > NumPages THEN <<>>
    ELSE PageLines(SelectSeq(doc, LAMBDA item : item.page = i)) \o AllLines(doc, i + 1)

\* parsePDF(file): allLines.join('\n')
parsePDF(doc) == JoinLines(AllLines(doc, 1))

\* text items: three on rows whose y round to 100, 100 and 101, a blank
\* one, one with a trailing space at an x already taken, one at y = -0.5
Fragments ==
    { [x |-> 10, y |-> 1004, str |-> <<"0","2","/","0","7","/","2","0","2","6">>],
      [x |-> 50, y |-> 996,  str |-> <<"N","e","t","f","l","i","x">>],
      [x |-> 90, y |-> 1005, str |-> <<"-","1","5",".","9","9">>],
      [x |-> 10, y |-> 800,  str |-> <<" ">>],
      [x |-> 10, y |-> 1000, str |-> <<"U","b","e","r"," ">>],
      [x |-> 5,  y |-> -5,   str |-> <<"P","a","g","e">>] }

\* the text items of a document
Items == {[page |-> p, x |-> f.x, y |-> f.y, str |-> f.str] : p \in 1..NumPages, f \in Fragments}

InitPdf ==
    /\ StoreIdle
    /\ input \in {<<>>} \cup SeqsUpTo(Items, MaxFragments)
    /\ output = <<>>
    /\ phase = "idle"

\* parsePDF(file)
CallParsePDF ==
    /\ phase = "idle"
    /\ output' = parsePDF(input)
    /\ phase' = "parsePDF"
    /\ UNCHANGED input
    /\ StoreUnchanged

SpecPdf == InitPdf /\ [][CallParsePDF]_vars

\* the items of the document that are not blank, by position
NonBlank == {i \in DOMAIN input : Trim(input[i].str) # <<>>}

\* the row of an item: its page and its rounded y
RowOf(i) == <<input[i].page, MathRound(input[i].y)>>

\* row q is emitted before row r
RowBefore(q, r) == q[1] < r[1] \/ (q[1] = r[1] /\ q[2] > r[2])

\* the texts of the items of row r from left to right, items at the same x
\* in document order
RowTexts(r) ==
    LET members == {i \in NonBlank : RowOf(i) = r}
        Left(i) == {j \in members : input[j].x < input[i].x \/ (input[j].x = input[i].x /\ j < i)}
    IN  [p \in 1..Cardinality(members) |->
            input[CHOOSE i \in members : Cardinality(Left(i)) = p - 1].str]

\* C27: the text parsePDF returns has one line per pair of a page and a
\* rounded y that holds a non-blank item; the lines come page after page
\* and, within a page, by strictly descending rounded y; a line is the texts
\* of exactly the non-blank items of its row, by ascending x, joined by one
\* space (and trimmed at both ends).
C27_RowsReconstructed ==
    phase = "parsePDF"
        => \E lines \in {IF output = <<>> THEN <<>> ELSE SplitLines(output)} :
           \E rows \in { {RowOf(i) : i \in NonBlank} } :
              /\ Len(lines) = Cardinality(rows)
              /\ \A r \in rows :
                    lines[1 + Cardinality({q \in rows : RowBefore(q, r)})]
                        = Trim(JoinWords(RowTexts(r)))

\* three items on two pages: two share a row though their y differ, and
\* the one met later stands to the left
C27_Witness ==
    /\ phase = "parsePDF"
    /\ Len(input) = 3
    /\ \E i, j \in NonBlank :
          /\ i < j
          /\ RowOf(i) = RowOf(j)
          /\ input[i].y # input[j].y
          /\ input[j].x < input[i].x
    /\ \E i, j \in NonBlank : input[i].page # input[j].page

\* the merchant names of the expenses of input in currency cur, each once,
\* in the order of their first expense
RECURSIVE FirstSeen(_)
FirstSeen(names) ==
    LET Rest(seen, name) == IF name \in Range(seen) THEN seen ELSE Append(seen, name)
    IN  IF names = <<>> THEN <<>>
        ELSE Rest(FirstSeen(SubSeq(names, 1, Len(names) - 1)), names[Len(names)])

MerchantsOf(cur) ==
    LET spent == SelectSeq(input, LAMBDA t : t.currency = cur /\ Negative(t))
    IN  FirstSeen([k \in DOMAIN spent |-> MerchantName(spent[k].description)])

\* C28: topMerchants of each currency summary has at most 10 entries, one
\* per merchant name (the first three space-separated tokens of the
\* description) of an expense, each with the sum of its expenses; totals
\* never increase along the list, and of two merchants with the same total
\* the one whose first expense comes earlier in the list stands first.
C28_TopMerchants ==
    phase = "summary"
        => \A i \in DOMAIN output.currencies :
           \E cur \in {output.currencies[i].key}, top \in {output.currencies[i].value.topMerchants} :
              /\ Len(top) <= TopCount
              /\ \A m \in DOMAIN top :
                    /\ top[m].name \in Range(MerchantsOf(cur))
                    /\ top[m].total
                           = SumOver(cur, LAMBDA t : Negative(t) /\ MerchantName(t.description) = top[m].name)
              /\ Len(top) = (IF Len(MerchantsOf(cur)) < TopCount THEN Len(MerchantsOf(cur)) ELSE TopCount)
              /\ \A m, n \in DOMAIN top :
                    m < n => /\ ~DoubleLess(top[m].total, top[n].total)
                             /\ top[m].name # top[n].name
                             /\ top[m].total = top[n].total
                                   => \E a, b \in DOMAIN MerchantsOf(cur) :
                                         /\ a < b
                                         /\ MerchantsOf(cur)[a] = top[m].name
                                         /\ MerchantsOf(cur)[b] = top[n].name

\* the queued updates are appends of handleFilesParsed only
OnlyAppendsQueued == output # <<>> /\ \A k \in DOMAIN output : output[k].fn = "append"

\* the transactions of the batches queued
QueuedTransactions == UNION {Range(output[k].value) : k \in DOMAIN output}

\* C29: on the deduplicating page, when the appends of handleFilesParsed
\* take effect, the list stored before is a prefix of the list stored after,
\* and each element after it is a transaction of an appended batch whose key
\* was not stored before.
C29_UploadOnlyAppends ==
    [][(/\ phase = "home"
        /\ input.dedup
        /\ OnlyAppendsQueued
        /\ output' = <<>>)
           => /\ Len(transactions') >= Len(transactions)
              /\ SubSeq(transactions', 1, Len(transactions)) = transactions
              /\ \A k \in (Len(transactions) + 1)..Len(transactions') :
                    /\ transactions'[k] \in QueuedTransactions
                    /\ \A j \in DOMAIN transactions :
                          KeyText(transactions[j]) # KeyText(transactions'[k])]_vars

\* on the deduplicating page two batches were appended; a transaction of the
\* second one had a key already stored and was dropped, another one was added
C29_Witness ==
    /\ phase = "home"
    /\ input.dedup
    /\ ~input.destroyed
    /\ Len(input.appended) = 2
    /\ output = <<>>
    /\ Len(transactions) > Len(input.appended[1])
    /\ Len(transactions) < Len(input.appended[1]) + Len(input.appended[2])
    /\ \E k \in DOMAIN input.appended[2] :
          KeyText(input.appended[2][k]) = KeyText(input.appended[1][1])

\* the sum of the values of an object, in the order Object.values lists them
SumOfValues(obj) == SumDoubles([k \in DOMAIN obj |-> obj[k].value])

\* the number of transactions of input in currency cur
GroupSize(cur) == Cardinality({k \in DOMAIN input : input[k].currency = cur})

RECURSIVE SumOfSizes(_)
SumOfSizes(currencies) ==
    IF currencies = <<>> THEN 0
    ELSE GroupSize(Head(currencies).key) + SumOfSizes(Tail(currencies))

\* C30: in every currency summary the values of categoryBreakdown add up
\* to totalSpent, and so do the values of monthlySpending; transactionCount
\* is the sum of the sizes of the currency groups.
C30_BreakdownsAddUp ==
    phase = "summary"
        => /\ output.transactionCount = SumOfSizes(output.currencies)
           /\ \A i \in DOMAIN output.currencies :
                 \E s \in {output.currencies[i].value} :
                    /\ SumOfValues(s.categoryBreakdown) = s.totalSpent
                    /\ SumOfValues(s.monthlySpending) = s.totalSpent

====
